---- MODULE Spec2Model ----
(***************************************************************************)
(* A model of the NoteSequence processors of resolv_mir: the quantizer,   *)
(* the subsequence extractor, the truncator, the slicer, the splitter,    *)
(* the melody extractors, the sustainer and the transposer, and of the    *)
(* pitch sequence representation.                                         *)
(*                                                                         *)
(* Times are floats (seconds) in the source.  The model keeps them as     *)
(* integers counting ticks of 1/TicksPerSecond second; every time the     *)
(* model produces is a whole number of ticks, so the arithmetic is exact. *)
(* The float tolerance of utilities.float_equal (1e-9 relative) is far    *)
(* below one tick: the tolerant comparisons are the exact ones here.      *)
(***************************************************************************)
EXTENDS Integers, Sequences, FiniteSets, TLC

VARIABLES seq, pre, op, arg, out, kept, err, origin, step, ret

vars == <<seq, pre, op, arg, out, kept, err, origin, step, ret>>

(***************************************************************************)
(* Program constants.                                                      *)
(***************************************************************************)
\* QUANTIZE_CUTOFF = 0.75, kept as the fraction CutoffNum / CutoffDen
QUANTIZE_CUTOFF_NUM == 3
QUANTIZE_CUTOFF_DEN == 4
DEFAULT_QUARTERS_PER_MINUTE == 120
PIANO_MIN_MIDI_PITCH == 21
PIANO_MAX_MIDI_PITCH == 108
MEL_PROGRAMS == (0..31) \cup (40..55) \cup (64..87) \cup (104..111)
SUSTAIN_CONTROL_NUMBER == 64

\* the time grid: fine enough to place a time on either side of the cutoff
TicksPerSecond == QUANTIZE_CUTOFF_DEN

(***************************************************************************)
(* Bounds of the model.                                                    *)
(***************************************************************************)
MaxBefore == 2
MaxTime == 3
MaxItems == 2
MaxReuse == 1
MaxSeconds == 8
MaxIntervals == 2
MaxIntervalLength == 2
MaxEndStep == 2
MaxNotes == 2
MaxStateful == 2
MaxMelodyNotes == 2
MaxStep == 3
MaxPedal == 2
MaxTransposed == 2
MaxInPlace == 1
MaxPitchNotes == 2
MaxSliceSize == 2
MaxHop == 2
MaxSearches == 6

\* resolutions the callers ask for (steps per second, steps per quarter)
StepsPerSecondValues == {1, 2, 4}
StepsPerQuarterValues == {1, 2}
CutoffValues == {1, 2, 3}

Times == (0 - MaxBefore)..MaxTime

(***************************************************************************)
(* Arithmetic helpers.                                                     *)
(***************************************************************************)
\* Python's int() of the rational a / b (b > 0): truncation toward zero
PyInt(a, b) == IF a >= 0 THEN a \div b ELSE -((-a) \div b)

\* the mathematical floor of a / b (b > 0)
Floor(a, b) == a \div b

Min2(a, b) == IF a <= b THEN a ELSE b

\* utilities.float_* on tick-valued times
float_equal(a, b) == a = b
float_less(a, b) == ~float_equal(a, b) /\ a < b
float_great(a, b) == ~float_equal(a, b) /\ a > b
float_less_or_equal(a, b) == float_equal(a, b) \/ a < b

(***************************************************************************)
(* quantize_to_step: seconds is in ticks, the cutoff is cutoffNum /       *)
(* QUANTIZE_CUTOFF_DEN.  un_quantized_steps + (1 - cutoff) is the         *)
(* rational StepNumerator / StepDenominator.                               *)
(***************************************************************************)
StepNumerator(seconds, steps_per_second, cutoffNum) ==
    seconds * steps_per_second * QUANTIZE_CUTOFF_DEN
        + (QUANTIZE_CUTOFF_DEN - cutoffNum) * TicksPerSecond

StepDenominator == QUANTIZE_CUTOFF_DEN * TicksPerSecond

\* a variant that adds the cutoff itself before truncating
quantize_to_step_cutoff_Added(seconds, steps_per_second, cutoffNum) ==
    PyInt(seconds * steps_per_second * QUANTIZE_CUTOFF_DEN
              + cutoffNum * TicksPerSecond, StepDenominator)

quantize_to_step_cutoff(seconds, steps_per_second, cutoffNum) ==
    PyInt(StepNumerator(seconds, steps_per_second, cutoffNum), StepDenominator)

\* a variant that always moves to the next step
quantize_to_step_RoundsUp(seconds, steps_per_second) ==
    quantize_to_step_cutoff(seconds, steps_per_second, 0)

quantize_to_step(seconds, steps_per_second) ==
    quantize_to_step_cutoff(seconds, steps_per_second, QUANTIZE_CUTOFF_NUM)

\* a quantized step back in ticks: step / steps_per_second seconds
StepToTime(s, steps_per_second) == (s * TicksPerSecond) \div steps_per_second

(***************************************************************************)
(* The NoteSequence record and its events.                                 *)
(***************************************************************************)
CHORD_SYMBOL == "CHORD_SYMBOL"
BEAT == "BEAT"

NewNote(start, end, pitch) ==
    [start_time |-> start, end_time |-> end, pitch |-> pitch,
     quantized_start_step |-> 0, quantized_end_step |-> 0,
     velocity |-> 0, instrument |-> 0, program |-> 0, is_drum |-> FALSE]

NewControlChange(time, number, value) ==
    [time |-> time, quantized_step |-> 0, instrument |-> 0, program |-> 0,
     control_number |-> number, control_value |-> value]

NewTextAnnotation(time, type) ==
    [time |-> time, quantized_step |-> 0, annotation_type |-> type]

NewTimeSignature(time, num, den) ==
    [time |-> time, numerator |-> num, denominator |-> den]

NewTempo(time, qpm) == [time |-> time, qpm |-> qpm]

NewKeySignature(time, key) == [time |-> time, key |-> key]

\* NoteSequence(): every field at its protobuf default
EmptySequence ==
    [notes |-> <<>>, control_changes |-> <<>>, text_annotations |-> <<>>,
     time_signatures |-> <<>>, key_signatures |-> <<>>, tempos |-> <<>>,
     total_time |-> 0, total_quantized_steps |-> 0,
     steps_per_quarter |-> 0, steps_per_second |-> 0,
     start_time_offset |-> 0, end_time_offset |-> 0]

\* sorted(events, key=...): Python's sort is stable
SortPosition(keys, i) ==
    1 + Cardinality({j \in DOMAIN keys :
                        keys[j] < keys[i] \/ (keys[j] = keys[i] /\ j < i)})

\* the concatenation makes the sorted list a tuple
SortedByKey(s, keys) ==
    [k \in DOMAIN s |-> s[CHOOSE i \in DOMAIN s : SortPosition(keys, i) = k]]
    \o <<>>

SortedByTime(events) == SortedByKey(events, [i \in DOMAIN events |-> events[i].time])

SortedByStartTime(notes) ==
    SortedByKey(notes, [i \in DOMAIN notes |-> notes[i].start_time])

\* utilities.is_*_quantized_sequence
\* quantization_info holds one resolution at a time: storing one of
\* steps_per_quarter, steps_per_second resets the other to zero
SetStepsPerQuarter(ns, steps_per_quarter) ==
    [ns EXCEPT !.steps_per_quarter = steps_per_quarter, !.steps_per_second = 0]

SetStepsPerSecond(ns, steps_per_second) ==
    [ns EXCEPT !.steps_per_second = steps_per_second, !.steps_per_quarter = 0]

is_relative_quantized_sequence(ns) == ns.steps_per_quarter > 0
is_absolute_quantized_sequence(ns) == ns.steps_per_second > 0
is_quantized_sequence(ns) ==
    ns.steps_per_quarter > 0 \/ ns.steps_per_second > 0

\* utilities.steps_per_quarter_to_steps_per_second; the tempos of the model
\* are multiples of 60 qpm, so that the quotient is a whole number
steps_per_quarter_to_steps_per_second(steps_per_quarter, qpm) ==
    (steps_per_quarter * qpm) \div 60

(***************************************************************************)
(* quantizer._quantize_notes                                               *)
(***************************************************************************)
\* a variant that leaves a zero-length note as it is
QuantizeNote_NoWidening(note, steps_per_second) ==
    LET s == quantize_to_step(note.start_time, steps_per_second)
        e == quantize_to_step(note.end_time, steps_per_second)
    IN  [note EXCEPT !.quantized_start_step = s,
                     !.quantized_end_step = e,
                     !.start_time = StepToTime(s, steps_per_second),
                     !.end_time = StepToTime(e, steps_per_second)]

QuantizeNote(note, steps_per_second) ==
    LET s  == quantize_to_step(note.start_time, steps_per_second)
        e0 == quantize_to_step(note.end_time, steps_per_second)
        e  == IF e0 = s THEN e0 + 1 ELSE e0
    IN  [note EXCEPT !.quantized_start_step = s,
                     !.quantized_end_step = e,
                     !.start_time = StepToTime(s, steps_per_second),
                     !.end_time = StepToTime(e, steps_per_second)]

QuantizeEvent(event, steps_per_second) ==
    LET s == quantize_to_step(event.time, steps_per_second)
    IN  [event EXCEPT !.quantized_step = s,
                      !.time = StepToTime(s, steps_per_second)]

\* a variant that takes the end step of the last note without comparing
ExtendTotalSteps_LastNote(notes, i, total) ==
    IF notes = <<>> THEN total ELSE notes[Len(notes)].quantized_end_step

\* "Extend quantized sequence if necessary", note after note
RECURSIVE ExtendTotalSteps(_, _, _)
ExtendTotalSteps(notes, i, total) ==
    IF i > Len(notes) THEN total
    ELSE ExtendTotalSteps(notes, i + 1,
            IF notes[i].quantized_end_step > total
            THEN notes[i].quantized_end_step ELSE total)

Raise(e) == [err |-> e, val |-> EmptySequence]
Return(v) == [err |-> "none", val |-> v]

\* what a call hands back: a sequence, a list of sequences, a number,
\* None, or nothing when it raised
ReturnKind(e, kind) == IF e = "none" THEN kind ELSE "nothing"

quantize_notes(ns, steps_per_second) ==
    LET notes == [i \in DOMAIN ns.notes |->
                     QuantizeNote(ns.notes[i], steps_per_second)]
        ccs   == [i \in DOMAIN ns.control_changes |->
                     QuantizeEvent(ns.control_changes[i], steps_per_second)]
        tas   == [i \in DOMAIN ns.text_annotations |->
                     QuantizeEvent(ns.text_annotations[i], steps_per_second)]
    IN  IF \E i \in DOMAIN notes : notes[i].quantized_start_step < 0
                                   \/ notes[i].quantized_end_step < 0
        THEN Raise("NegativeTimeError")
        ELSE IF \/ \E i \in DOMAIN ccs : ccs[i].quantized_step < 0
                \/ \E i \in DOMAIN tas : tas[i].quantized_step < 0
        THEN Raise("NegativeTimeError")
        ELSE Return([ns EXCEPT
                !.notes = notes,
                !.control_changes = ccs,
                !.text_annotations = tas,
                !.total_quantized_steps =
                    ExtendTotalSteps(notes, 1, ns.total_quantized_steps)])

(***************************************************************************)
(* quantizer.quantize_note_sequence_absolute                               *)
(***************************************************************************)
quantize_note_sequence_absolute(note_sequence, steps_per_second) ==
    LET qns == [SetStepsPerSecond(note_sequence, steps_per_second) EXCEPT
                   !.total_quantized_steps =
                       quantize_to_step(note_sequence.total_time, steps_per_second)]
    IN  quantize_notes(qns, steps_per_second)

(***************************************************************************)
(* quantizer.quantize_note_sequence                                        *)
(***************************************************************************)
is_power_of_2(x) == x \in {1, 2, 4, 8, 16, 32, 64, 128}

\* the time signature block: an error name, or the single signature kept
SingleTimeSignature(signatures) ==
    IF signatures = <<>>
    THEN [err |-> "none", val |-> <<NewTimeSignature(0, 4, 4)>>]
    ELSE LET time_signatures == SortedByTime(signatures)
         IN  IF /\ time_signatures[1].time # 0
                /\ ~(time_signatures[1].numerator = 4
                     /\ time_signatures[1].denominator = 4)
             THEN [err |-> "MultipleTimeSignatureError", val |-> <<>>]
             ELSE IF \E i \in 2..Len(time_signatures) :
                        \/ time_signatures[i].numerator # signatures[1].numerator
                        \/ time_signatures[i].denominator # signatures[1].denominator
             THEN [err |-> "MultipleTimeSignatureError", val |-> <<>>]
             ELSE [err |-> "none",
                   val |-> <<[signatures[1] EXCEPT !.time = 0]>>]

\* the tempo block
SingleTempo(tempos) ==
    IF tempos = <<>>
    THEN [err |-> "none", val |-> <<NewTempo(0, DEFAULT_QUARTERS_PER_MINUTE)>>]
    ELSE LET sorted_tempos == SortedByTime(tempos)
         IN  IF /\ sorted_tempos[1].time # 0
                /\ sorted_tempos[1].qpm # DEFAULT_QUARTERS_PER_MINUTE
             THEN [err |-> "MultipleTempoError", val |-> <<>>]
             ELSE IF \E i \in 2..Len(sorted_tempos) :
                        sorted_tempos[i].qpm # tempos[1].qpm
             THEN [err |-> "MultipleTempoError", val |-> <<>>]
             ELSE [err |-> "none", val |-> <<[tempos[1] EXCEPT !.time = 0]>>]

quantize_note_sequence(note_sequence, steps_per_quarter) ==
    LET ts == SingleTimeSignature(note_sequence.time_signatures)
        tp == SingleTempo(note_sequence.tempos)
    IN  IF ts.err # "none" THEN Raise(ts.err)
        ELSE IF ~is_power_of_2(ts.val[1].denominator)
        THEN Raise("BadTimeSignatureError")
        ELSE IF ts.val[1].numerator = 0 THEN Raise("BadTimeSignatureError")
        ELSE IF tp.err # "none" THEN Raise(tp.err)
        ELSE LET steps_per_second ==
                     steps_per_quarter_to_steps_per_second(
                         steps_per_quarter, tp.val[1].qpm)
                 qns == [SetStepsPerQuarter(note_sequence, steps_per_quarter) EXCEPT
                            !.time_signatures = ts.val,
                            !.tempos = tp.val,
                            !.total_quantized_steps =
                                quantize_to_step(note_sequence.total_time,
                                                 steps_per_second)]
             IN  quantize_notes(qns, steps_per_second)

(***************************************************************************)
(* extractor.extract_subsequences                                          *)
(***************************************************************************)
DEFAULT_SUBSEQUENCE_PRESERVE_CONTROL_NUMBERS == {64, 66, 67}

\* a variant that takes the end of the interval in
check_time_in_interval_Closed(time, interval) ==
    float_less_or_equal(interval[1], time) /\ float_less_or_equal(time, interval[2])

\* _check_time_in_interval
check_time_in_interval(time, interval) ==
    float_less_or_equal(interval[1], time) /\ float_less(time, interval[2])

\* sorted(subsequences_intervals, key=lambda x: x[0])
SortedIntervals(intervals) ==
    SortedByKey(intervals, [i \in DOMAIN intervals |-> intervals[i][1]])

\* the copy of a note placed in the subsequence of an interval
RebasedNote(note, interval) ==
    [note EXCEPT !.start_time = note.start_time - interval[1],
                 !.end_time = Min2(note.end_time, interval[2]) - interval[1]]

RebasedEvent(event, interval) ==
    [event EXCEPT !.time = event.time - interval[1]]

\* the notes of one subsequence, in the order of their start times
SubsequenceNotes(sequence, interval, first_start) ==
    LET sorted == SortedByStartTime(sequence.notes)
        mine   == SelectSeq(sorted, LAMBDA n :
                      /\ ~float_less(n.start_time, first_start)
                      /\ check_time_in_interval(n.start_time, interval))
    IN  [i \in DOMAIN mine |-> RebasedNote(mine[i], interval)]

\* total_time of a subsequence, raised note after note
RECURSIVE SubsequenceTotalTime(_, _, _)
SubsequenceTotalTime(notes, i, total) ==
    IF i > Len(notes) THEN total
    ELSE SubsequenceTotalTime(notes, i + 1,
            IF float_great(notes[i].end_time, total)
            THEN notes[i].end_time ELSE total)

\* a variant that leaves out an event at the very start of the interval
StatefulEvents_AfterStart(events, interval) ==
    LET sorted == SortedByTime(events)
        before == SelectSeq(sorted, LAMBDA e : float_less(e.time, interval[1]))
        inside == SelectSeq(sorted, LAMBDA e :
                      /\ float_great(e.time, interval[1])
                      /\ check_time_in_interval(e.time, interval))
        moved  == [i \in DOMAIN inside |-> RebasedEvent(inside[i], interval)]
    IN  IF before # <<>> /\ moved = <<>>
        THEN <<[before[Len(before)] EXCEPT !.time = 0]>>
        ELSE moved

\* stateful events of one kind for one interval: the events inside it, or,
\* when there is none, the latest event before its start moved to time 0
StatefulEvents(events, interval) ==
    LET sorted == SortedByTime(events)
        before == SelectSeq(sorted, LAMBDA e : float_less(e.time, interval[1]))
        inside == SelectSeq(sorted, LAMBDA e :
                      /\ ~float_less(e.time, interval[1])
                      /\ check_time_in_interval(e.time, interval))
        moved  == [i \in DOMAIN inside |-> RebasedEvent(inside[i], interval)]
    IN  IF before # <<>> /\ moved = <<>>
        THEN <<[before[Len(before)] EXCEPT !.time = 0]>>
        ELSE moved

ChordSymbols(sequence) ==
    SelectSeq(sequence.text_annotations,
              LAMBDA a : a.annotation_type = CHORD_SYMBOL)

\* pedal events of one interval; the events saved in
\* previous_pedal_events are never added to a subsequence
PedalEvents(sequence, interval, preserve_control_numbers) ==
    LET pedal_events == SelectSeq(sequence.control_changes,
                            LAMBDA c : c.control_number \in preserve_control_numbers)
        sorted == SortedByTime(pedal_events)
        inside == SelectSeq(sorted, LAMBDA e :
                      /\ ~float_less(e.time, interval[1])
                      /\ check_time_in_interval(e.time, interval))
    IN  [i \in DOMAIN inside |-> RebasedEvent(inside[i], interval)]

\* one subsequence before it is quantized again
RawSubsequence(sequence, interval, first_start) ==
    LET notes == SubsequenceNotes(sequence, interval, first_start)
    IN  [sequence EXCEPT
            !.notes = notes,
            !.total_time = SubsequenceTotalTime(notes, 1, 0),
            !.time_signatures = StatefulEvents(sequence.time_signatures, interval),
            !.key_signatures = StatefulEvents(sequence.key_signatures, interval),
            !.tempos = StatefulEvents(sequence.tempos, interval),
            !.text_annotations = StatefulEvents(ChordSymbols(sequence), interval),
            !.control_changes =
                PedalEvents(sequence, interval,
                            DEFAULT_SUBSEQUENCE_PRESERVE_CONTROL_NUMBERS)]

\* "Quantize subsequences if necessary"
RequantizedSubsequence(sequence, subsequence) ==
    IF is_absolute_quantized_sequence(sequence)
    THEN quantize_note_sequence_absolute(subsequence, sequence.steps_per_second)
    ELSE IF is_relative_quantized_sequence(sequence)
    THEN quantize_note_sequence(subsequence, sequence.steps_per_quarter)
    ELSE Return(subsequence)

\* "Set subsequence info for all subsequences"
WithSubsequenceInfo(sequence, subsequence, interval) ==
    [subsequence EXCEPT
        !.start_time_offset = interval[1],
        !.end_time_offset =
            sequence.total_time - interval[1] - subsequence.total_time]

\* a variant that looks at the start of each interval only
PastEndOfSequence_StartsOnly(sequence, subsequences_intervals) ==
    \E i \in DOMAIN subsequences_intervals :
        float_great(subsequences_intervals[i][1], sequence.total_time)

\* "Cannot extract subsequence past end of sequence."
PastEndOfSequence(sequence, subsequences_intervals) ==
    \E i \in DOMAIN subsequences_intervals :
        \/ float_great(subsequences_intervals[i][1], sequence.total_time)
        \/ float_great(subsequences_intervals[i][2], sequence.total_time)

\* the result: an error, or the subsequences that hold a note together
\* with the interval of each
extract_subsequences(sequence, subsequences_intervals) ==
    LET intervals == SortedIntervals(subsequences_intervals)
        raw == [i \in DOMAIN intervals |->
                   RawSubsequence(sequence, intervals[i], intervals[1][1])]
        quantized == [i \in DOMAIN intervals |->
                         RequantizedSubsequence(sequence, raw[i])]
        all == [i \in DOMAIN intervals |->
                   [sub |-> WithSubsequenceInfo(sequence, quantized[i].val,
                                                intervals[i]),
                    interval |-> intervals[i]]]
        full == SelectSeq(all, LAMBDA x : x.sub.notes # <<>>)
    IN  IF subsequences_intervals = <<>>
        THEN [err |-> "ValueError", val |-> <<>>, kept |-> <<>>]
        ELSE IF PastEndOfSequence(sequence, subsequences_intervals)
        THEN [err |-> "ValueError", val |-> <<>>, kept |-> <<>>]
        ELSE IF sequence.text_annotations # <<>>
        \* `annotation_type in NoteSequence.TextAnnotation.BEAT` asks for
        \* membership in an integer
        THEN [err |-> "TypeError", val |-> <<>>, kept |-> <<>>]
        ELSE IF \E i \in DOMAIN quantized : quantized[i].err # "none"
        THEN [err |-> quantized[CHOOSE i \in DOMAIN quantized :
                          /\ quantized[i].err # "none"
                          /\ \A j \in 1..(i - 1) : quantized[j].err = "none"].err,
              val |-> <<>>, kept |-> <<>>]
        ELSE [err |-> "none",
              val |-> [i \in DOMAIN full |-> full[i].sub],
              kept |-> [i \in DOMAIN full |-> full[i].interval]]

(***************************************************************************)
(* truncator.truncate_quantized_sequence_at_step: works on the caller's   *)
(* sequence itself.  The result holds the sequence as the call leaves it. *)
(***************************************************************************)
\* the loop with a non-zero steps_per_second: every note that ends after
\* end_step is cut, del_note_index follows the last of them
RECURSIVE TruncateLoop(_, _, _, _, _)
TruncateLoop(notes, i, del_note_index, end_step, steps_per_second) ==
    IF i > Len(notes) THEN [notes |-> notes, del_note_index |-> del_note_index]
    ELSE IF notes[i].quantized_end_step > end_step
    THEN TruncateLoop(
            [notes EXCEPT ![i] = [@ EXCEPT
                !.quantized_end_step = end_step,
                !.end_time = StepToTime(end_step, steps_per_second)]],
            i + 1, i, end_step, steps_per_second)
    ELSE TruncateLoop(notes, i + 1, del_note_index, end_step, steps_per_second)

truncate_quantized_sequence_at_step(note_sequence, end_step) ==
    LET steps_per_second == note_sequence.steps_per_second
        notes == note_sequence.notes
        late  == {i \in DOMAIN notes : notes[i].quantized_end_step > end_step}
    IN  IF ~is_relative_quantized_sequence(note_sequence)
        THEN [err |-> "QuantizationStatusError", val |-> note_sequence]
        ELSE IF late = {}
        THEN [err |-> "none", val |-> note_sequence]
        ELSE IF steps_per_second = 0
        \* end_step / steps_per_second divides by zero at the first late
        \* note, whose quantized_end_step is already overwritten
        THEN LET first == CHOOSE i \in late : \A j \in late : i <= j
             IN  [err |-> "ZeroDivisionError",
                  val |-> [note_sequence EXCEPT
                              !.notes[first].quantized_end_step = end_step]]
        ELSE LET r == TruncateLoop(notes, 1, 0, end_step, steps_per_second)
             IN  [err |-> "none",
                  val |-> [note_sequence EXCEPT
                              !.notes = SubSeq(r.notes, r.del_note_index + 1,
                                               Len(r.notes))]]

(***************************************************************************)
(* splitter.split_note_sequence_on_time_changes and                        *)
(* splitter.split_note_sequence_on_silence.  A result holds the list       *)
(* returned (val), the intervals of its subsequences (kept), whether the   *)
(* list holds the caller's own sequence (same) and the kind of the value   *)
(* returned.                                                               *)
(***************************************************************************)
IsTimeSignature(event) == "numerator" \in DOMAIN event

\* `[note_sequence]`: the list holds the caller's sequence itself
SameSequence(note_sequence) ==
    [err |-> "none", val |-> <<note_sequence>>, kept |-> <<>>,
     same |-> TRUE, kind |-> "list"]

\* the call of extract_subsequences whose result is returned
Delegated(note_sequence, intervals) ==
    CHOOSE d \in {[err |-> r.err, val |-> r.val, kept |-> r.kept, same |-> FALSE,
                   kind |-> ReturnKind(r.err, "list")] :
                      r \in {extract_subsequences(note_sequence, i) :
                                i \in {intervals}}} : TRUE

\* notes started before the event and still sounding after it
NotesCrossingSplit(notes, time) ==
    SelectSeq(SortedByStartTime(notes),
              LAMBDA n : float_less(n.start_time, time) /\ n.end_time > time)

\* the loop over the time signatures and tempos; st holds the current
\* numerator, denominator and qpm, the split times found and the end of the
\* previous split
RECURSIVE TimeChangeLoop(_, _, _, _, _)
TimeChangeLoop(events, i, st, notes, skip_splits_inside_notes) ==
    IF i > Len(events) THEN st
    ELSE LET event == events[i]
             same  == IF IsTimeSignature(event)
                      THEN /\ event.numerator = st.numerator
                           /\ event.denominator = st.denominator
                      ELSE event.qpm = st.qpm
             split == /\ float_great(event.time, st.previous_end_time)
                      /\ ~(/\ skip_splits_inside_notes
                           /\ NotesCrossingSplit(notes, event.time) # <<>>)
             st1   == IF split
                      THEN [st EXCEPT
                               !.valid_split_times =
                                   Append(@, <<st.previous_end_time, event.time>>),
                               !.previous_end_time = event.time]
                      ELSE st
             st2   == IF IsTimeSignature(event)
                      THEN [st1 EXCEPT !.numerator = event.numerator,
                                       !.denominator = event.denominator]
                      ELSE [st1 EXCEPT !.qpm = event.qpm]
         IN  IF same
             THEN TimeChangeLoop(events, i + 1, st, notes, skip_splits_inside_notes)
             ELSE TimeChangeLoop(events, i + 1, st2, notes, skip_splits_inside_notes)

split_note_sequence_on_time_changes(note_sequence, skip_splits_inside_notes) ==
    LET sorted == SortedByTime(note_sequence.time_signatures \o note_sequence.tempos)
        time_signatures_and_tempos ==
            SelectSeq(sorted, LAMBDA t : t.time < note_sequence.total_time)
        st == TimeChangeLoop(time_signatures_and_tempos, 1,
                  [numerator |-> 4, denominator |-> 4,
                   qpm |-> DEFAULT_QUARTERS_PER_MINUTE,
                   valid_split_times |-> <<>>, previous_end_time |-> 0],
                  note_sequence.notes, skip_splits_inside_notes)
        valid_split_times ==
            IF float_great(note_sequence.total_time, st.previous_end_time)
            THEN Append(st.valid_split_times,
                        <<st.previous_end_time, note_sequence.total_time>>)
            ELSE st.valid_split_times
    IN  IF Len(valid_split_times) > 1
        THEN Delegated(note_sequence, valid_split_times)
        ELSE SameSequence(note_sequence)

\* the loop over the notes in the order of their start times
RECURSIVE SilenceLoop(_, _, _, _)
SilenceLoop(notes, i, st, gap_seconds) ==
    IF i > Len(notes) THEN st
    ELSE LET note == notes[i]
             st1  == IF float_great(note.start_time,
                                    st.last_active_time + gap_seconds)
                     THEN [st EXCEPT
                              !.split_times =
                                  Append(@, <<st.previous_end_time, note.start_time>>),
                              !.previous_end_time = note.start_time]
                     ELSE st
             st2  == [st1 EXCEPT !.last_active_time =
                         IF note.end_time > @ THEN note.end_time ELSE @]
         IN  SilenceLoop(notes, i + 1, st2, gap_seconds)

\* with more than one segment the result of extract_subsequences is
\* dropped: the call ends without a return statement
split_note_sequence_on_silence(note_sequence, gap_seconds) ==
    LET st == SilenceLoop(SortedByStartTime(note_sequence.notes), 1,
                  [split_times |-> <<>>, previous_end_time |-> 0,
                   last_active_time |-> 0], gap_seconds)
        split_times ==
            IF float_great(note_sequence.total_time, st.previous_end_time)
            THEN Append(st.split_times,
                        <<st.previous_end_time, note_sequence.total_time>>)
            ELSE st.split_times
    IN  IF Len(split_times) > 1
        THEN [Delegated(note_sequence, split_times) EXCEPT
                 !.val = <<>>, !.kept = <<>>,
                 !.kind = IF @ = "list" THEN "None" ELSE @]
        ELSE SameSequence(note_sequence)

(***************************************************************************)
(* extractor.extract_melody_from_note_sequence.  A result holds the error  *)
(* raised, or the melody returned (val) or the fact that None was          *)
(* returned (kind).                                                        *)
(***************************************************************************)
\* utilities.steps_per_bar_in_quantized_sequence is the rational
\* StepsPerBarNumerator / time signature denominator
StepsPerBarNumerator(ns) ==
    ns.steps_per_quarter * 4 * ns.time_signatures[1].numerator

steps_per_second_in_quantized_sequence(ns) ==
    steps_per_quarter_to_steps_per_second(ns.steps_per_quarter, ns.tempos[1].qpm)

\* sorted(notes, key=lambda n: (n.quantized_start_step, -n.pitch))
SortedByStepAndPitch(notes) ==
    SortedByKey(notes, [i \in DOMAIN notes |->
        notes[i].quantized_start_step * 128 + (127 - notes[i].pitch)])

\* _copy_note_to_melody
MelodyNote(note, melody_start_step, steps_per_second) ==
    LET s == note.quantized_start_step - melody_start_step
        e == note.quantized_end_step - melody_start_step
    IN  [note EXCEPT !.quantized_start_step = s,
                     !.quantized_end_step = e,
                     !.start_time = StepToTime(s, steps_per_second),
                     !.end_time = StepToTime(e, steps_per_second)]

\* a variant that leaves the last note of the melody as it is
EndSustainedNote_Kept(melody_notes, new_note, steps_per_second) == melody_notes

\* "End any sustained notes.": the last note of the melody is cut at the
\* start of the new one
EndSustainedNote(melody_notes, new_note, steps_per_second) ==
    LET last == melody_notes[Len(melody_notes)]
    IN  IF last.quantized_end_step > new_note.quantized_start_step
        THEN [melody_notes EXCEPT ![Len(melody_notes)] =
                 [last EXCEPT !.quantized_end_step = new_note.quantized_start_step,
                              !.end_time = new_note.start_time]]
        ELSE melody_notes

\* the loop over the sorted notes; p holds the parameters of the call
RECURSIVE MelodyLoop(_, _, _, _)
MelodyLoop(notes, i, melody_notes, p) ==
    IF i > Len(notes) THEN [err |-> "none", notes |-> melody_notes]
    ELSE LET note == notes[i]
             new  == MelodyNote(note, p.melody_start_step, p.steps_per_second)
             last == melody_notes[Len(melody_notes)]
             on_distance  == new.quantized_start_step - last.quantized_start_step
             off_distance == new.quantized_end_step - last.quantized_end_step
         IN  IF (p.filter_drums /\ note.is_drum) \/ note.velocity = 0
             THEN MelodyLoop(notes, i + 1, melody_notes, p)
             ELSE IF melody_notes = <<>>
             THEN MelodyLoop(notes, i + 1, <<new>>, p)
             ELSE IF on_distance = 0 /\ p.ignore_polyphonic_notes
             THEN MelodyLoop(notes, i + 1, melody_notes, p)
             ELSE IF on_distance <= 0
             THEN [err |-> "PolyphonicMelodyError", notes |-> <<>>]
             ELSE IF off_distance >= p.gap_bars * p.steps_per_bar
             THEN [err |-> "none", notes |-> melody_notes]
             ELSE MelodyLoop(notes, i + 1,
                      Append(EndSustainedNote(melody_notes, new, p.steps_per_second),
                             new), p)

NoMelody == [err |-> "none", val |-> EmptySequence, kind |-> "None"]

extract_melody_from_note_sequence(quantized_sequence, search_start_step, instrument, gap_bars, ignore_polyphonic_notes, filter_drums) ==
    LET time_signature == quantized_sequence.time_signatures[1]
        steps_per_bar == StepsPerBarNumerator(quantized_sequence)
                             \div time_signature.denominator
        steps_per_second ==
            steps_per_second_in_quantized_sequence(quantized_sequence)
        notes == SortedByStepAndPitch(
                     SelectSeq(quantized_sequence.notes, LAMBDA n :
                         /\ n.instrument = instrument
                         /\ n.program \in MEL_PROGRAMS
                         /\ n.quantized_start_step >= search_start_step
                         /\ PIANO_MIN_MIDI_PITCH <= n.pitch
                         /\ n.pitch <= PIANO_MAX_MIDI_PITCH))
        melody_start_step ==
            notes[1].quantized_start_step
                - ((notes[1].quantized_start_step - search_start_step)
                       % steps_per_bar)
        melody_start_time == StepToTime(melody_start_step, steps_per_second)
        r == MelodyLoop(notes, 1, <<>>,
                 [melody_start_step |-> melody_start_step,
                  steps_per_second |-> steps_per_second,
                  steps_per_bar |-> steps_per_bar,
                  gap_bars |-> gap_bars,
                  ignore_polyphonic_notes |-> ignore_polyphonic_notes,
                  filter_drums |-> filter_drums])
        last == r.notes[Len(r.notes)]
        in_melody(time) == /\ float_less_or_equal(melody_start_time, time)
                           /\ float_less(time, last.end_time)
        melody == [quantized_sequence EXCEPT
                      !.notes = r.notes,
                      !.text_annotations = <<>>,
                      !.control_changes =
                          SelectSeq(quantized_sequence.control_changes, LAMBDA cc :
                              /\ in_melody(cc.time)
                              /\ cc.instrument = instrument
                              /\ cc.program \in MEL_PROGRAMS),
                      !.total_quantized_steps = last.quantized_end_step,
                      !.total_time = last.end_time]
    IN  IF ~is_relative_quantized_sequence(quantized_sequence)
        THEN Raise("QuantizationStatusError") @@ [kind |-> "nothing"]
        ELSE IF StepsPerBarNumerator(quantized_sequence)
                    % time_signature.denominator # 0
        THEN Raise("NonIntegerStepsPerBarError") @@ [kind |-> "nothing"]
        ELSE IF notes = <<>> THEN NoMelody
        ELSE IF r.err # "none" THEN Raise(r.err) @@ [kind |-> "nothing"]
        ELSE IF r.notes = <<>> THEN NoMelody
        \* melody.pitch_bends.append(new_ta): a text annotation is not a
        \* pitch bend
        ELSE IF \E a \in DOMAIN quantized_sequence.text_annotations :
                    in_melody(quantized_sequence.text_annotations[a].time)
        THEN Raise("TypeError") @@ [kind |-> "nothing"]
        ELSE [err |-> "none", val |-> melody, kind |-> "sequence"]

(***************************************************************************)
(* sustainer.apply_sustain_control_changes.  The notes of the copy are     *)
(* objects: `notes` holds every one of them by its position in the input,  *)
(* `alive` the positions still in sequence.notes, `active` the active      *)
(* notes of each instrument in the order they were added.                  *)
(***************************************************************************)
SUSTAIN_ON == 0
SUSTAIN_OFF == 1
NOTE_ON == 2
NOTE_OFF == 3

Instruments == {0, 1}

\* the note and sustain events, in the order events.sort leaves them
SustainEvents(sequence, sustain_control_number) ==
    LET sounding == SelectSeq([i \in DOMAIN sequence.notes |-> i],
                              LAMBDA i : ~sequence.notes[i].is_drum)
        ons  == [k \in DOMAIN sounding |->
                    [time |-> sequence.notes[sounding[k]].start_time,
                     type |-> NOTE_ON, ref |-> sounding[k]]]
        offs == [k \in DOMAIN sounding |->
                    [time |-> sequence.notes[sounding[k]].end_time,
                     type |-> NOTE_OFF, ref |-> sounding[k]]]
        pedal == SelectSeq(sequence.control_changes,
                           LAMBDA cc : cc.control_number = sustain_control_number)
        ccs  == [k \in DOMAIN pedal |->
                    [time |-> pedal[k].time,
                     type |-> IF pedal[k].control_value >= 64
                              THEN SUSTAIN_ON ELSE SUSTAIN_OFF,
                     ref |-> pedal[k].instrument]]
        events == ons \o offs \o ccs
    IN  SortedByKey(events, [k \in DOMAIN events |->
                                events[k].time * 4 + events[k].type])

\* sequence.notes.remove(note): the first note of the sequence equal to it
RemoveNote(st, k) ==
    LET equal == {j \in st.alive : st.notes[j] = st.notes[k]}
        first == CHOOSE j \in equal : \A l \in equal : j <= l
    IN  IF equal = {} THEN st ELSE [st EXCEPT !.alive = @ \ {first}]

\* sustain off: the notes that were held by the pedal end now
RECURSIVE EndExtendedNotes(_, _, _, _, _)
EndExtendedNotes(st, list, i, time, new_active_notes) ==
    IF i > Len(list) THEN [st EXCEPT !.new_active_notes = new_active_notes]
    ELSE LET k == list[i]
         IN  IF st.notes[k].end_time < time
             THEN EndExtendedNotes(
                      [st EXCEPT !.notes[k].end_time = time,
                                 !.total_time = IF time > @ THEN time ELSE @],
                      list, i + 1, time, new_active_notes)
             ELSE EndExtendedNotes(st, list, i + 1, time,
                                   Append(new_active_notes, k))

\* note on under sustain: the active notes of the same pitch end now, and
\* one that is left without duration is removed from the sequence
RECURSIVE EndSamePitchNotes(_, _, _, _, _, _)
EndSamePitchNotes(st, list, i, time, pitch, new_active_notes) ==
    IF i > Len(list) THEN [st EXCEPT !.new_active_notes = new_active_notes]
    ELSE LET k == list[i]
             ended == [st EXCEPT !.notes[k].end_time = time]
         IN  IF st.notes[k].pitch = pitch
             THEN EndSamePitchNotes(
                      IF ended.notes[k].start_time = ended.notes[k].end_time
                      THEN RemoveNote(ended, k) ELSE ended,
                      list, i + 1, time, pitch, new_active_notes)
             ELSE EndSamePitchNotes(st, list, i + 1, time, pitch,
                                    Append(new_active_notes, k))

\* a variant in which a released note stays in the active list
RemoveActive_Kept(st, instrument, k) == st

\* active_notes[instrument].remove(event): the first active note equal to it
RemoveActive(st, instrument, k) ==
    LET list  == st.active[instrument]
        equal == {i \in DOMAIN list : st.notes[list[i]] = st.notes[k]}
        first == CHOOSE i \in equal : \A l \in equal : i <= l
    IN  IF equal = {} THEN st
        ELSE [st EXCEPT !.active[instrument] =
                 SubSeq(list, 1, first - 1) \o SubSeq(list, first + 1, Len(list))]

SustainStep(st, event) ==
    IF event.type = SUSTAIN_ON
    THEN [st EXCEPT !.sus_active[event.ref] = TRUE]
    ELSE IF event.type = SUSTAIN_OFF
    THEN LET r == EndExtendedNotes([st EXCEPT !.sus_active[event.ref] = FALSE],
                      st.active[event.ref], 1, event.time, <<>>)
         IN  [r EXCEPT !.active[event.ref] = r.new_active_notes]
    ELSE LET instrument == st.notes[event.ref].instrument
         IN  IF event.type = NOTE_ON
             THEN IF st.sus_active[instrument]
                  THEN LET r == EndSamePitchNotes(st, st.active[instrument], 1,
                                    event.time, st.notes[event.ref].pitch, <<>>)
                       IN  [r EXCEPT !.active[instrument] =
                               Append(r.new_active_notes, event.ref)]
                  ELSE [st EXCEPT !.active[instrument] = Append(@, event.ref)]
             ELSE IF st.sus_active[instrument]
                  THEN st
                  ELSE RemoveActive(st, instrument, event.ref)

RECURSIVE SustainLoop(_, _, _)
SustainLoop(st, events, i) ==
    IF i > Len(events) THEN st
    ELSE SustainLoop(SustainStep(st, events[i]), events, i + 1)

\* "End any notes that were still active due to sustain."
RECURSIVE EndActiveNotes(_, _, _, _)
EndActiveNotes(st, list, i, time) ==
    IF i > Len(list) THEN st
    ELSE EndActiveNotes([st EXCEPT !.notes[list[i]].end_time = time,
                                   !.total_time = time],
                        list, i + 1, time)

\* the note objects and the positions left in sequence.notes at the return
SustainedNotes(note_sequence, sustain_control_number) ==
    LET events == SustainEvents(note_sequence, sustain_control_number)
        time == IF events = <<>> THEN 0 ELSE events[Len(events)].time
        st0 == [notes |-> note_sequence.notes,
                alive |-> DOMAIN note_sequence.notes,
                active |-> [i \in Instruments |-> <<>>],
                sus_active |-> [i \in Instruments |-> FALSE],
                new_active_notes |-> <<>>,
                total_time |-> note_sequence.total_time]
        st1 == SustainLoop(st0, events, 1)
    IN  EndActiveNotes(st1, st1.active[0] \o st1.active[1], 1, time)

apply_sustain_control_changes(note_sequence, sustain_control_number) ==
    LET st == SustainedNotes(note_sequence, sustain_control_number)
        left == SelectSeq([i \in DOMAIN st.notes |-> i], LAMBDA i : i \in st.alive)
    IN  IF is_quantized_sequence(note_sequence)
        THEN Raise("QuantizationStatusError")
        ELSE Return([note_sequence EXCEPT
                        !.notes = [k \in DOMAIN left |-> st.notes[left[k]]],
                        !.total_time = st.total_time])

(***************************************************************************)
(* chord_symbols.transposer and processors.transposer.  The text of a      *)
(* chord symbol is kept as what split_chord_symbol and parse_root read in  *)
(* it: the step and the alteration of its root; kind, modifications and    *)
(* bass, which the transposer copies, are left out.                        *)
(***************************************************************************)
MIN_MIDI_PITCH == 0
MAX_MIDI_PITCH == 127
NOTES_PER_OCTAVE == 12

Figure(kind, root_step, alter) ==
    [kind |-> kind, step |-> root_step, alter |-> alter]

NO_CHORD == Figure("N.C.", "", 0)

\* a text CHORD_SYMBOL_REGEX does not match
Unparsable == Figure("unparsable", "", 0)

ChordAnnotation(time, text) ==
    NewTextAnnotation(time, CHORD_SYMBOL) @@ [text |-> text]

STEPS_ABOVE ==
    ("A" :> 2) @@ ("B" :> 1) @@ ("C" :> 2) @@ ("D" :> 2) @@ ("E" :> 1)
    @@ ("F" :> 2) @@ ("G" :> 2)

\* chr(ord('A') + (ord(step) - ord('A') + 1) % 7)
NextStep ==
    ("A" :> "B") @@ ("B" :> "C") @@ ("C" :> "D") @@ ("D" :> "E") @@ ("E" :> "F")
    @@ ("F" :> "G") @@ ("G" :> "A")

RECURSIVE StepUp(_, _, _)
StepUp(root_step, alter, transpose_amount) ==
    IF transpose_amount >= STEPS_ABOVE[root_step]
    THEN StepUp(NextStep[root_step], alter, transpose_amount - STEPS_ABOVE[root_step])
    ELSE IF transpose_amount > 0
         THEN IF alter >= 0
              THEN [step |-> NextStep[root_step],
                    alter |-> alter - (STEPS_ABOVE[root_step] - transpose_amount)]
              ELSE [step |-> root_step, alter |-> alter + transpose_amount]
         ELSE [step |-> root_step, alter |-> alter]

transpose_pitch_class(root_step, alter, transpose_amount) ==
    StepUp(root_step, alter, transpose_amount % 12)

transpose_chord_symbol(figure, transpose_amount) ==
    IF figure.kind = "unparsable"
    THEN [err |-> "ChordSymbolError", val |-> figure]
    ELSE LET root == transpose_pitch_class(figure.step, figure.alter,
                                           transpose_amount)
         IN  [err |-> "none", val |-> Figure(figure.kind, root.step, root.alter)]

RECURSIVE FoldDown(_, _)
FoldDown(new_pitch, max_allowed_pitch) ==
    IF new_pitch > max_allowed_pitch
    THEN FoldDown(new_pitch - NOTES_PER_OCTAVE, max_allowed_pitch)
    ELSE new_pitch

RECURSIVE FoldUp(_, _)
FoldUp(new_pitch, min_allowed_pitch) ==
    IF new_pitch < min_allowed_pitch
    THEN FoldUp(new_pitch + NOTES_PER_OCTAVE, min_allowed_pitch)
    ELSE new_pitch

\* a variant that never moves a pitch by octaves
transpose_note_pitch_NoFold(n, amount, min_allowed_pitch, max_allowed_pitch, delete_notes) ==
    n.pitch + amount

transpose_note_pitch(n, amount, min_allowed_pitch, max_allowed_pitch, delete_notes) ==
    IF delete_notes THEN n.pitch + amount
    ELSE FoldUp(FoldDown(n.pitch + amount, max_allowed_pitch), min_allowed_pitch)

\* the loop over the notes: the new note list, the count and the end time
RECURSIVE TransposeNotes(_, _, _, _, _, _, _)
TransposeNotes(notes, i, st, amount, min_allowed_pitch, max_allowed_pitch, delete_notes) ==
    IF i > Len(notes) THEN st
    ELSE LET note == notes[i]
             transposed_pitch == transpose_note_pitch(note, amount,
                 min_allowed_pitch, max_allowed_pitch, delete_notes)
             kept_st(n) ==
                 [st EXCEPT !.end_time = IF n.end_time > @ THEN n.end_time ELSE @,
                            !.new_note_list = Append(@, n),
                            !.notes[i] = n]
         IN  TransposeNotes(notes, i + 1,
                 IF note.is_drum THEN kept_st(note)
                 ELSE IF min_allowed_pitch <= transposed_pitch
                         /\ transposed_pitch <= max_allowed_pitch
                 THEN kept_st([note EXCEPT !.pitch = transposed_pitch])
                 ELSE [st EXCEPT !.deleted_note_count = @ + 1],
                 amount, min_allowed_pitch, max_allowed_pitch, delete_notes)

\* the loop over the text annotations, which stops at the first chord symbol
\* that cannot be read
RECURSIVE TransposeChords(_, _, _)
TransposeChords(tas, i, amount) ==
    IF i > Len(tas) THEN [err |-> "none", val |-> tas]
    ELSE IF tas[i].annotation_type = CHORD_SYMBOL /\ tas[i].text # NO_CHORD
    THEN LET r == transpose_chord_symbol(tas[i].text, amount)
         IN  IF r.err # "none" THEN [err |-> r.err, val |-> tas]
             ELSE TransposeChords([tas EXCEPT ![i].text = r.val], i + 1, amount)
    ELSE TransposeChords(tas, i + 1, amount)

\* err: the error raised; val: the sequence returned; count: the number
\* returned with it; arg: the sequence worked on, as it is left at the end
transpose_note_sequence(note_sequence, amount, min_allowed_pitch, max_allowed_pitch, transpose_chords, delete_notes) ==
    LET st == TransposeNotes(note_sequence.notes, 1,
                  [notes |-> note_sequence.notes, new_note_list |-> <<>>,
                   deleted_note_count |-> 0, end_time |-> 0],
                  amount, min_allowed_pitch, max_allowed_pitch, delete_notes)
        noted == [note_sequence EXCEPT
                     !.notes = IF st.deleted_note_count > 0
                               THEN st.new_note_list ELSE st.notes,
                     !.total_time = st.end_time]
        chords == TransposeChords(noted.text_annotations, 1, amount)
        no_chords == SelectSeq(noted.text_annotations,
                               LAMBDA ta : ta.annotation_type # CHORD_SYMBOL)
        texted == [noted EXCEPT !.text_annotations =
                      IF transpose_chords THEN chords.val ELSE no_chords]
        keyed == [texted EXCEPT !.key_signatures =
                     [k \in DOMAIN @ |->
                         [@[k] EXCEPT !.key = (@ + amount) % NOTES_PER_OCTAVE]]]
    IN  IF min_allowed_pitch > max_allowed_pitch
        THEN [err |-> "ValueError", val |-> EmptySequence, count |-> 0,
              arg |-> note_sequence]
        ELSE IF transpose_chords /\ chords.err # "none"
        THEN [err |-> chords.err, val |-> EmptySequence, count |-> 0,
              arg |-> texted]
        ELSE [err |-> "none", val |-> keyed, count |-> st.deleted_note_count,
              arg |-> keyed]

(***************************************************************************)
(* representations.sequence.pitch_sequence_representation.                 *)
(***************************************************************************)
HOLD_NOTE_SYMBOL == 128
SILENCE_SYMBOL == 129

\* list[i] = v: an index below zero counts from the end of the list
SetItem(list, i, v) ==
    IF 0 <= i /\ i < Len(list)
    THEN [err |-> "none", val |-> [list EXCEPT ![i + 1] = v]]
    ELSE IF 0 - Len(list) <= i /\ i < 0
    THEN [err |-> "none", val |-> [list EXCEPT ![Len(list) + i + 1] = v]]
    ELSE [err |-> "IndexError", val |-> list]

\* a variant in which the held steps begin at the start step itself
FirstHeldStep_Start(note) == note.quantized_start_step

\* range(note.quantized_start_step + 1, note.quantized_end_step)
FirstHeldStep(note) == note.quantized_start_step + 1

RECURSIVE HoldSteps(_, _, _)
HoldSteps(r, i, end) ==
    IF r.err # "none" \/ i >= end THEN r
    ELSE HoldSteps(SetItem(r.val, i, HOLD_NOTE_SYMBOL), i + 1, end)

RECURSIVE PitchLoop(_, _, _)
PitchLoop(notes, k, r) ==
    IF r.err # "none" \/ k > Len(notes) THEN r
    ELSE PitchLoop(notes, k + 1,
             HoldSteps(SetItem(r.val, notes[k].quantized_start_step,
                               notes[k].pitch),
                       FirstHeldStep(notes[k]), notes[k].quantized_end_step))

pitch_sequence_representation(note_sequence) ==
    IF ~is_quantized_sequence(note_sequence)
    THEN [err |-> "QuantizationStatusError", val |-> <<>>]
    ELSE PitchLoop(note_sequence.notes, 1,
             [err |-> "none",
              val |-> [i \in 1..note_sequence.total_quantized_steps |->
                          SILENCE_SYMBOL]])

(***************************************************************************)
(* slicer.slice_note_sequence and splitter.split_note_sequence.            *)
(***************************************************************************)
\* the inner loop: the notes that start before slice_start join
\* notes_crossing_split, which is never emptied
RECURSIVE NotesBeforeSlice(_, _, _)
NotesBeforeSlice(notes_by_start_time, st, slice_start) ==
    IF /\ st.note_idx < Len(notes_by_start_time)
       /\ float_less(notes_by_start_time[st.note_idx + 1].start_time, slice_start)
    THEN NotesBeforeSlice(notes_by_start_time,
             [st EXCEPT !.notes_crossing_split =
                            Append(@, notes_by_start_time[st.note_idx + 1]),
                        !.note_idx = @ + 1],
             slice_start)
    ELSE st

\* `skip_splits_inside_notes and notes_crossing_split`
SliceIsSkipped(st, slice_start, skip_splits_inside_notes) ==
    skip_splits_inside_notes /\ st.notes_crossing_split # <<>>

\* the loop over the windows, for a positive hop size
RECURSIVE SliceLoop(_, _, _, _, _, _, _)
SliceLoop(notes_by_start_time, total_time, slice_size_seconds, hop_size_seconds, skip_splits_inside_notes, allow_cropped_slices, st) ==
    IF ~float_less_or_equal(st.current_time, total_time) THEN st.slices_times
    ELSE IF /\ float_great(st.current_time + slice_size_seconds, total_time)
            /\ ~allow_cropped_slices
    THEN st.slices_times
    ELSE LET slice_start == st.current_time
             slice_end   ==
                 IF float_great(st.current_time + slice_size_seconds, total_time)
                 THEN total_time
                 ELSE st.current_time + slice_size_seconds
             st1 == NotesBeforeSlice(notes_by_start_time, st, slice_start)
             st2 == IF SliceIsSkipped(st1, slice_start, skip_splits_inside_notes)
                    THEN st1
                    ELSE [st1 EXCEPT !.slices_times =
                                         Append(@, <<slice_start, slice_end>>)]
         IN  SliceLoop(notes_by_start_time, total_time, slice_size_seconds,
                       hop_size_seconds, skip_splits_inside_notes,
                       allow_cropped_slices,
                       [st2 EXCEPT !.current_time = @ + hop_size_seconds])

slice_note_sequence(note_sequence, slice_size_seconds, hop_size_seconds, start_time, skip_splits_inside_notes, allow_cropped_slices) ==
    Delegated(note_sequence,
        SliceLoop(SortedByStartTime(note_sequence.notes),
                  note_sequence.total_time, slice_size_seconds,
                  hop_size_seconds, skip_splits_inside_notes,
                  allow_cropped_slices,
                  [current_time |-> start_time, slices_times |-> <<>>,
                   note_idx |-> 0, notes_crossing_split |-> <<>>]))

\* a hop size is [scalar |-> seconds] or [list |-> times]
IsList(hop_size_seconds) == "list" \in DOMAIN hop_size_seconds

\* the intervals of a positive scalar hop size
RECURSIVE HopIntervals(_, _, _, _)
HopIntervals(total_time, hop, current_time, split_intervals) ==
    IF ~float_less(current_time, total_time) THEN split_intervals
    ELSE HopIntervals(total_time, hop, current_time + hop,
             Append(split_intervals,
                    <<current_time, Min2(current_time + hop, total_time)>>))

\* the intervals of a list of split points
RECURSIVE PointIntervals(_, _, _, _, _)
PointIntervals(total_time, points, i, current_time, split_intervals) ==
    IF i > Len(points)
    THEN Append(split_intervals, <<current_time, total_time>>)
    ELSE PointIntervals(total_time, points, i + 1, Min2(points[i], total_time),
             Append(split_intervals,
                    <<current_time, Min2(points[i], total_time)>>))

\* the condition that sets valid_split_intervals_mask[idx] to False
MasksInterval(note, split_interval) ==
    /\ float_great(note.start_time, split_interval[1])
    /\ float_great(note.end_time, split_interval[2])

split_note_sequence(note_sequence, hop_size_seconds, skip_splits_inside_notes) ==
    LET split_intervals ==
            IF ~IsList(hop_size_seconds)
            THEN HopIntervals(note_sequence.total_time, hop_size_seconds.scalar,
                              0, <<>>)
            ELSE PointIntervals(note_sequence.total_time,
                     SortedByKey(hop_size_seconds.list, hop_size_seconds.list),
                     1, 0, <<>>)
        valid_split_intervals ==
            IF skip_splits_inside_notes
            THEN SelectSeq(split_intervals, LAMBDA interval :
                     \A k \in DOMAIN note_sequence.notes :
                         ~MasksInterval(note_sequence.notes[k], interval))
            ELSE split_intervals
    IN  IF Len(valid_split_intervals) > 1
        THEN Delegated(note_sequence, valid_split_intervals)
        ELSE SameSequence(note_sequence)

(***************************************************************************)
(* extractor.extract_melodies_from_note_sequence, one search of the loop   *)
(* at a time.  A call holds its parameters p, the instrument searched, the *)
(* instruments still to search, the searches made for the instrument and   *)
(* the melody of the last search; 0 stands for a bar limit that is not     *)
(* set.                                                                    *)
(***************************************************************************)
\* statistics.Counter objects start at 0 and count increments; the
\* histogram keeps the lengths it was given
InitStats ==
    [polyphonic_tracks_discarded |-> 0,
     non_integer_steps_per_bar_tracks_discarded |-> 0,
     melodies_discarded_too_short |-> 0,
     melodies_discarded_too_few_pitches |-> 0,
     melodies_discarded_too_long |-> 0,
     melodies_truncated |-> 0,
     melody_lengths_in_bars |-> <<>>]

\* set(n.instrument for n in quantized_sequence.notes), in the order in
\* which a set of small integers is walked
InstrumentsOf(ns) ==
    LET S == {ns.notes[i].instrument : i \in DOMAIN ns.notes}
    IN  [k \in 1..Cardinality(S) |->
            CHOOSE x \in S : Cardinality({y \in S : y < x}) = k - 1] \o <<>>

\* np.count_nonzero of the histogram of pitch classes
UniquePitches(melody) ==
    Cardinality({melody.notes[i].pitch % NOTES_PER_OCTAVE :
                    i \in {j \in DOMAIN melody.notes :
                              melody.notes[j].pitch >= MIN_MIDI_PITCH}})

\* the call is over: it returned (melodies, stats) or raised
MelodiesReturned(a, melodies, stats, e) ==
    [op |-> "extract_melodies_from_note_sequence", arg |-> a, step |-> 0,
     out |-> IF e = "none" THEN melodies ELSE <<>>,
     kept |-> IF e = "none" THEN stats ELSE <<>>,
     err |-> e, ret |-> ReturnKind(e, "pair")]

\* `break`: the next instrument, or the end of the loop over instruments
NextInstrument(a, melodies, stats) ==
    IF a.instruments = <<>>
    THEN MelodiesReturned([a EXCEPT !.melody = <<>>], melodies, stats, "none")
    ELSE [op |-> "searching",
          arg |-> [a EXCEPT !.instrument = Head(a.instruments),
                            !.instruments = Tail(a.instruments),
                            !.searches = 0,
                            !.melody = <<>>],
          step |-> a.p.search_start_step,
          out |-> melodies, kept |-> stats, err |-> "none", ret |-> "nothing"]

\* "Start search for next melody on next bar boundary (inclusive)."
NextSearchStartStep(quantized_sequence, a, search_start_step, melody) ==
    a.steps_per_bar
        * (((search_start_step + melody.total_quantized_steps)
                \div a.steps_per_bar) + 1)

\* `continue`, or the end of the body of the loop
NextSearch(a, next_step, melody, melodies, stats) ==
    [op |-> "searching",
     arg |-> [a EXCEPT !.searches = @ + 1, !.melody = <<melody>>],
     step |-> next_step,
     out |-> melodies, kept |-> stats, err |-> "none", ret |-> "nothing"]

\* the filters applied to a melody that was found
FilterMelody(a, next_step, melody, melodies, stats) ==
    IF melody.total_quantized_steps < a.steps_per_bar * a.p.min_bars
    THEN NextSearch(a, next_step, melody, melodies,
             [stats EXCEPT !.melodies_discarded_too_short = @ + 1])
    ELSE IF /\ a.p.max_bars_discard # 0
            /\ melody.total_quantized_steps
                   > a.steps_per_bar * a.p.max_bars_discard
    THEN NextSearch(a, next_step, melody, melodies,
             [stats EXCEPT !.melodies_discarded_too_long = @ + 1])
    ELSE IF UniquePitches(melody) < a.p.min_unique_pitches
    THEN NextSearch(a, next_step, melody, melodies,
             [stats EXCEPT !.melodies_discarded_too_few_pitches = @ + 1])
    ELSE NextSearch(a, next_step, melody, Append(melodies, melody),
             [stats EXCEPT !.melody_lengths_in_bars =
                 Append(@, melody.total_quantized_steps \div a.steps_per_bar)])

\* one pass through the body of `while True`
SearchStep(quantized_sequence, a, search_start_step, melodies, stats) ==
    LET m == extract_melody_from_note_sequence(quantized_sequence,
                 search_start_step, a.instrument, a.p.gap_bars,
                 a.p.ignore_polyphonic_notes, a.p.filter_drums)
        max_steps_truncate == a.steps_per_bar * a.p.max_bars_truncate
        truncate == /\ a.p.max_bars_truncate # 0
                    /\ m.val.total_quantized_steps > max_steps_truncate
        t == truncate_quantized_sequence_at_step(m.val, max_steps_truncate)
    IN  IF m.err = "PolyphonicMelodyError"
        THEN NextInstrument(a, melodies,
                 [stats EXCEPT !.polyphonic_tracks_discarded = @ + 1])
        ELSE IF m.err = "NonIntegerStepsPerBarError"
        THEN NextInstrument(a, melodies,
                 [stats EXCEPT
                     !.non_integer_steps_per_bar_tracks_discarded = @ + 1])
        ELSE IF m.err # "none"
        THEN MelodiesReturned(a, melodies, stats, m.err)
        ELSE IF m.kind = "None"
        THEN NextInstrument(a, melodies, stats)
        ELSE IF truncate /\ t.err # "none"
        THEN MelodiesReturned(a, melodies, stats, t.err)
        ELSE IF truncate
        THEN FilterMelody(a,
                 NextSearchStartStep(quantized_sequence, a, search_start_step,
                                     t.val),
                 t.val, melodies,
                 [stats EXCEPT !.melodies_truncated = @ + 1])
        ELSE FilterMelody(a,
                 NextSearchStartStep(quantized_sequence, a, search_start_step,
                                     m.val),
                 m.val, melodies, stats)

\* the call up to the loop over the instruments
extract_melodies_from_note_sequence(quantized_sequence, p) ==
    LET a == [p |-> p,
              steps_per_bar |->
                  StepsPerBarNumerator(quantized_sequence)
                      \div quantized_sequence.time_signatures[1].denominator,
              instrument |-> 0,
              instruments |-> InstrumentsOf(quantized_sequence),
              searches |-> 0,
              melody |-> <<>>]
    IN  IF ~is_relative_quantized_sequence(quantized_sequence)
        THEN MelodiesReturned([p |-> p], <<>>, InitStats,
                              "QuantizationStatusError")
        ELSE NextInstrument(a, <<>>, InitStats)

(***************************************************************************)
(* The sequences the callers hand in.                                      *)
(***************************************************************************)
Pitches == {60}

InputNotes ==
    {NewNote(s, e, p) : s \in Times, e \in Times, p \in Pitches}

InputControlChanges ==
    {NewControlChange(t, SUSTAIN_CONTROL_NUMBER, 127) : t \in Times}

InputTextAnnotations == {NewTextAnnotation(t, CHORD_SYMBOL) : t \in Times}

InputTimeSignatures ==
    {NewTimeSignature(t, n, 4) : t \in {0, 2}, n \in {3, 4}}

InputTempos ==
    {NewTempo(t, q) : t \in {0, 2}, q \in {60, DEFAULT_QUARTERS_PER_MINUTE}}

ListsOf(S, n) == [1..n -> S]

\* unquantized sequences holding at most MaxItems notes and events
InputSequence(ns) ==
    \E kn \in 0..MaxItems :
    \E kc \in 0..(MaxItems - kn) :
    \E ka \in 0..(MaxItems - kn - kc) :
    \E ks \in 0..(MaxItems - kn - kc - ka) :
    \E kt \in 0..(MaxItems - kn - kc - ka - ks) :
    \E notes \in ListsOf(InputNotes, kn) :
    \E ccs \in ListsOf(InputControlChanges, kc) :
    \E tas \in ListsOf(InputTextAnnotations, ka) :
    \E tss \in ListsOf(InputTimeSignatures, ks) :
    \E tps \in ListsOf(InputTempos, kt) :
    \E total \in {0, MaxTime} :
        ns = [EmptySequence EXCEPT
                 !.notes = notes, !.control_changes = ccs,
                 !.text_annotations = tas, !.time_signatures = tss,
                 !.tempos = tps, !.total_time = total]

FromCaller == [op |-> "input", arg |-> 0, depth |-> 0]

Init ==
    /\ InputSequence(seq)
    /\ pre = seq
    /\ op = "init"
    /\ arg = 0
    /\ out = <<>>
    /\ kept = <<>>
    /\ err = "none"
    /\ origin = FromCaller
    /\ step = 0
    /\ ret = "nothing"

(***************************************************************************)
(* The operations.  Every call leaves in `pre` the caller's sequence as   *)
(* it was before the call, in `seq` the same object after the call, in    *)
(* `out` the sequences returned, in `ret` the kind of value returned and  *)
(* in `err` the exception raised.                                          *)
(***************************************************************************)
QuantizeOps == {"quantize_note_sequence", "quantize_note_sequence_absolute"}

Returned(r) == IF r.err = "none" THEN <<r.val>> ELSE <<>>

QuantizeNoteSequence(steps_per_quarter) ==
    LET r == quantize_note_sequence(seq, steps_per_quarter)
    IN  /\ op = "init"
        /\ op' = "quantize_note_sequence"
        /\ arg' = steps_per_quarter
        /\ pre' = seq
        /\ seq' = seq
        /\ out' = Returned(r)
        /\ err' = r.err
        /\ ret' = ReturnKind(r.err, "sequence")
        /\ kept' = <<>>
        /\ UNCHANGED <<origin, step>>

QuantizeNoteSequenceAbsolute(steps_per_second) ==
    LET r == quantize_note_sequence_absolute(seq, steps_per_second)
    IN  /\ op = "init"
        /\ op' = "quantize_note_sequence_absolute"
        /\ arg' = steps_per_second
        /\ pre' = seq
        /\ seq' = seq
        /\ out' = Returned(r)
        /\ err' = r.err
        /\ ret' = ReturnKind(r.err, "sequence")
        /\ kept' = <<>>
        /\ UNCHANGED <<origin, step>>

\* the caller drops what the call returned and keeps its sequence
Forget ==
    /\ op # "init"
    /\ op' = "init"
    /\ arg' = 0
    /\ pre' = seq
    /\ out' = <<>>
    /\ kept' = <<>>
    /\ err' = "none"
    /\ step' = 0
    /\ ret' = "nothing"
    /\ UNCHANGED <<seq, origin>>

\* the caller passes a returned sequence on to the next transformation,
\* with its quantization_info kept or cleared
Reuse(i, clear) ==
    /\ err = "none"
    /\ i \in DOMAIN out
    /\ origin.depth < MaxReuse
    /\ seq' = IF clear
              THEN [out[i] EXCEPT !.steps_per_quarter = 0, !.steps_per_second = 0]
              ELSE out[i]
    /\ pre' = seq'
    /\ origin' = [op |-> op, arg |-> arg, depth |-> origin.depth + 1]
    /\ op' = "init"
    /\ arg' = 0
    /\ out' = <<>>
    /\ kept' = <<>>
    /\ err' = "none"
    /\ ret' = "nothing"
    /\ UNCHANGED step

Next ==
    \/ \E r \in StepsPerQuarterValues : QuantizeNoteSequence(r)
    \/ \E r \in StepsPerSecondValues : QuantizeNoteSequenceAbsolute(r)
    \/ \E i \in 1..MaxIntervals, clear \in BOOLEAN : Reuse(i, clear)
    \/ Forget

Spec == Init /\ [][Next]_vars

(***************************************************************************)
(* quantize_to_step on its own, over times, resolutions and cutoffs.       *)
(***************************************************************************)
InitQ ==
    /\ seq = EmptySequence
    /\ pre = seq
    /\ op = "init"
    /\ arg = 0
    /\ out = <<>>
    /\ kept = <<>>
    /\ err = "none"
    /\ origin = FromCaller
    /\ step = 0
    /\ ret = "nothing"

QuantizeToStep(seconds, steps_per_second, cutoffNum) ==
    /\ op = "init"
    /\ op' = "quantize_to_step"
    /\ arg' = <<seconds, steps_per_second, cutoffNum>>
    /\ step' = quantize_to_step_cutoff(seconds, steps_per_second, cutoffNum)
    /\ ret' = "number"
    /\ UNCHANGED <<seq, pre, out, kept, err, origin>>

NextQ ==
    \/ \E t \in (-MaxSeconds)..MaxSeconds, r \in StepsPerSecondValues,
       c \in CutoffValues : QuantizeToStep(t, r, c)
    \/ Forget

SpecQ == InitQ /\ [][NextQ]_vars

(***************************************************************************)
(* The extractor and the truncator, on unquantized sequences and on the   *)
(* sequences the quantizer returned for them.                              *)
(***************************************************************************)
ExtractorNotes ==
    {NewNote(s, e, p) : s \in 0..MaxTime, e \in 0..MaxTime, p \in Pitches}

ExtractorControlChanges ==
    {NewControlChange(t, SUSTAIN_CONTROL_NUMBER, 127) : t \in {0, 2}}

ExtractorTextAnnotations == {NewTextAnnotation(1, CHORD_SYMBOL)}

ExtractorSequence(ns) ==
    \E kn \in 0..MaxItems :
    \E kc \in 0..(MaxItems - kn) :
    \E ka \in 0..(MaxItems - kn - kc) :
    \E ks \in 0..(MaxItems - kn - kc - ka) :
    \E kt \in 0..(MaxItems - kn - kc - ka - ks) :
    \E notes \in ListsOf({n \in ExtractorNotes : n.start_time <= n.end_time}, kn) :
    \E ccs \in ListsOf(ExtractorControlChanges, kc) :
    \E tas \in ListsOf(ExtractorTextAnnotations, ka) :
    \E tss \in ListsOf(InputTimeSignatures, ks) :
    \E tps \in ListsOf(InputTempos, kt) :
        ns = [EmptySequence EXCEPT
                 !.notes = notes, !.control_changes = ccs,
                 !.text_annotations = tas, !.time_signatures = tss,
                 !.tempos = tps, !.total_time = MaxTime]

\* the intervals asked for: starts from before 0, ends up to past total_time
Intervals ==
    {<<s, s + d>> : s \in (-1)..(MaxTime - 1), d \in 1..MaxIntervalLength}

IntervalLists == UNION {ListsOf(Intervals, k) : k \in 0..MaxIntervals}

InitX ==
    /\ ExtractorSequence(seq)
    /\ pre = seq
    /\ op = "init"
    /\ arg = 0
    /\ out = <<>>
    /\ kept = <<>>
    /\ err = "none"
    /\ origin = FromCaller
    /\ step = 0
    /\ ret = "nothing"

ExtractSubsequences(intervals) ==
    LET r == extract_subsequences(seq, intervals)
    IN  /\ op = "init"
        /\ op' = "extract_subsequences"
        /\ arg' = intervals
        /\ pre' = seq
        /\ seq' = seq
        /\ out' = r.val
        /\ kept' = r.kept
        /\ err' = r.err
        /\ ret' = ReturnKind(r.err, "list")
        /\ UNCHANGED <<origin, step>>

TruncateQuantizedSequenceAtStep(end_step) ==
    LET r == truncate_quantized_sequence_at_step(seq, end_step)
    IN  /\ op = "init"
        /\ op' = "truncate_quantized_sequence_at_step"
        /\ arg' = end_step
        /\ pre' = seq
        /\ seq' = r.val
        /\ out' = IF r.err = "none" THEN <<r.val>> ELSE <<>>
        /\ kept' = <<>>
        /\ err' = r.err
        /\ ret' = ReturnKind(r.err, "sequence")
        /\ UNCHANGED <<origin, step>>

NextX ==
    \/ \E r \in StepsPerQuarterValues : QuantizeNoteSequence(r)
    \/ \E r \in StepsPerSecondValues : QuantizeNoteSequenceAbsolute(r)
    \/ \E i \in 1..MaxIntervals : op \in QuantizeOps /\ Reuse(i, FALSE)
    \/ Forget
    \/ \E intervals \in IntervalLists : ExtractSubsequences(intervals)
    \/ \E end_step \in 0..MaxEndStep : TruncateQuantizedSequenceAtStep(end_step)

SpecX == InitX /\ [][NextX]_vars

(***************************************************************************)
(* The splitter and the extractor on unquantized sequences that hold       *)
(* notes of positive length and time signatures, key signatures and        *)
(* tempos.                                                                 *)
(***************************************************************************)
SplitterNotes ==
    {NewNote(s, e, p) : s \in 0..(MaxTime - 1), e \in 1..MaxTime, p \in Pitches}

InputKeySignatures == {NewKeySignature(t, k) : t \in {0, 2}, k \in {0, 7}}

SplitterSequence(ns) ==
    \E kn \in 0..MaxNotes :
    \E ks \in 0..MaxStateful :
    \E kt \in 0..(MaxStateful - ks) :
    \E kk \in 0..(MaxStateful - ks - kt) :
    \E notes \in ListsOf({n \in SplitterNotes :
                             n.end_time \in {n.start_time + 1, MaxTime}}, kn) :
    \E tss \in ListsOf(InputTimeSignatures, ks) :
    \E tps \in ListsOf(InputTempos, kt) :
    \E kss \in ListsOf(InputKeySignatures, kk) :
        ns = [EmptySequence EXCEPT
                 !.notes = notes, !.time_signatures = tss, !.tempos = tps,
                 !.key_signatures = kss, !.total_time = MaxTime]

\* the intervals asked for lie inside the sequence
SplitterIntervals == {i \in Intervals : i[1] >= 0 /\ i[2] <= MaxTime}

SplitterIntervalLists ==
    UNION {ListsOf(SplitterIntervals, k) : k \in 1..MaxIntervals}

GapValues == {0, 1}

InitS ==
    /\ SplitterSequence(seq)
    /\ pre = seq
    /\ op = "init"
    /\ arg = 0
    /\ out = <<>>
    /\ kept = <<>>
    /\ err = "none"
    /\ origin = FromCaller
    /\ step = 0
    /\ ret = "nothing"

SplitNoteSequenceOnTimeChanges(skip_splits_inside_notes) ==
    /\ op = "init"
    /\ \E r \in {split_note_sequence_on_time_changes(seq, skip_splits_inside_notes)} :
       /\ op' = "split_note_sequence_on_time_changes"
       /\ arg' = skip_splits_inside_notes
       /\ pre' = seq
       /\ seq' = seq
       /\ out' = r.val
       /\ kept' = r.kept
       /\ err' = r.err
       /\ ret' = r.kind
       /\ UNCHANGED <<origin, step>>

SplitNoteSequenceOnSilence(gap_seconds) ==
    /\ op = "init"
    /\ \E r \in {split_note_sequence_on_silence(seq, gap_seconds)} :
       /\ op' = "split_note_sequence_on_silence"
       /\ arg' = gap_seconds
       /\ pre' = seq
       /\ seq' = seq
       /\ out' = r.val
       /\ kept' = r.kept
       /\ err' = r.err
       /\ ret' = r.kind
       /\ UNCHANGED <<origin, step>>

NextS ==
    \/ \E intervals \in SplitterIntervalLists : ExtractSubsequences(intervals)
    \/ \E skip \in BOOLEAN : SplitNoteSequenceOnTimeChanges(skip)
    \/ \E gap \in GapValues : SplitNoteSequenceOnSilence(gap)
    \/ Forget

SpecS == InitS /\ [][NextS]_vars

(***************************************************************************)
(* The melody extractor on sequences quantized relative to tempo.  The     *)
(* notes carry the steps the quantizer leaves: an end step after the start *)
(* step, or before it for a note whose end_time preceded its start_time.   *)
(***************************************************************************)
QuantizedNote(s, e, pitch, velocity, is_drum, steps_per_second) ==
    [NewNote(StepToTime(s, steps_per_second), StepToTime(e, steps_per_second),
             pitch)
        EXCEPT !.quantized_start_step = s, !.quantized_end_step = e,
               !.velocity = velocity, !.is_drum = is_drum]

MelodyPitches == {60, 62}

MelodyNotes(steps_per_second) ==
    {QuantizedNote(s, e, p, 80, FALSE, steps_per_second) :
        s \in 0..MaxStep, e \in 0..(MaxStep + 2), p \in MelodyPitches}
    \cup {QuantizedNote(s, s + 1, 60, 80, TRUE, steps_per_second) : s \in 0..MaxStep}

MelodyTimeSignatures == {NewTimeSignature(0, 2, 4), NewTimeSignature(0, 3, 8)}

\* at most one control change or chord symbol next to the notes
MelodyEvents ==
    {[ccs |-> <<>>, tas |-> <<>>],
     [ccs |-> <<NewControlChange(0, SUSTAIN_CONTROL_NUMBER, 127)>>, tas |-> <<>>],
     [ccs |-> <<NewControlChange(TicksPerSecond, SUSTAIN_CONTROL_NUMBER, 127)>>,
      tas |-> <<>>],
     [ccs |-> <<>>, tas |-> <<NewTextAnnotation(0, CHORD_SYMBOL)>>]}

MelodySequence(ns) ==
    \E steps_per_quarter \in StepsPerQuarterValues :
    \E ts \in MelodyTimeSignatures :
    \E ev \in MelodyEvents :
    \E kn \in 0..MaxMelodyNotes :
    LET steps_per_second ==
            steps_per_quarter_to_steps_per_second(steps_per_quarter,
                                                  DEFAULT_QUARTERS_PER_MINUTE)
        eligible == {n \in MelodyNotes(steps_per_second) :
                        n.quantized_end_step \in
                            {n.quantized_start_step - 1,
                             n.quantized_start_step + 1,
                             n.quantized_start_step + 2}}
    IN  \E notes \in ListsOf(eligible, kn) :
            ns = [EmptySequence EXCEPT
                     !.notes = notes,
                     !.control_changes = ev.ccs,
                     !.text_annotations = ev.tas,
                     !.time_signatures = <<ts>>,
                     !.tempos = <<NewTempo(0, DEFAULT_QUARTERS_PER_MINUTE)>>,
                     !.steps_per_quarter = steps_per_quarter,
                     !.total_quantized_steps = MaxStep + 2,
                     !.total_time = StepToTime(MaxStep + 2, steps_per_second)]

InitM ==
    /\ MelodySequence(seq)
    /\ pre = seq
    /\ op = "init"
    /\ arg = 0
    /\ out = <<>>
    /\ kept = <<>>
    /\ err = "none"
    /\ origin = FromCaller
    /\ step = 0
    /\ ret = "nothing"

ExtractMelodyFromNoteSequence(search_start_step, ignore_polyphonic_notes) ==
    LET r == extract_melody_from_note_sequence(seq, search_start_step, 0, 1,
                 ignore_polyphonic_notes, TRUE)
    IN  /\ op = "init"
        /\ op' = "extract_melody_from_note_sequence"
        /\ arg' = <<search_start_step, ignore_polyphonic_notes>>
        /\ pre' = seq
        /\ seq' = seq
        /\ out' = IF r.kind = "sequence" THEN <<r.val>> ELSE <<>>
        /\ kept' = <<>>
        /\ err' = r.err
        /\ ret' = r.kind
        /\ UNCHANGED <<origin, step>>

NextM ==
    \/ \E s \in 0..1, ignore \in BOOLEAN : ExtractMelodyFromNoteSequence(s, ignore)
    \/ Forget

SpecM == InitM /\ [][NextM]_vars

(***************************************************************************)
(* The sustainer on un-quantized sequences with a sustain pedal.           *)
(***************************************************************************)
\* pitch-60 notes of no and of unit length and one long note, a note of
\* another pitch and a drum note
SustainNotes ==
    {NewNote(0, 0, 60), NewNote(0, 1, 60), NewNote(1, 2, 60),
     NewNote(0, MaxTime, 60), NewNote(0, 1, 62),
     [NewNote(0, MaxTime, 36) EXCEPT !.is_drum = TRUE]}

\* a note that ends before it starts comes alone
SustainNoteLists(n) ==
    ListsOf(SustainNotes, n) \cup (IF n = 1 THEN {<<NewNote(1, 0, 60)>>} ELSE {})

PedalChanges ==
    {NewControlChange(t, SUSTAIN_CONTROL_NUMBER, 127) : t \in {0, 1}}
    \cup {NewControlChange(t, SUSTAIN_CONTROL_NUMBER, 0) : t \in {1, MaxTime}}
    \cup {[NewControlChange(0, SUSTAIN_CONTROL_NUMBER, 127) EXCEPT !.instrument = 1],
          NewControlChange(0, 66, 127)}

SustainSequence(ns) ==
    \E kn \in 0..MaxNotes :
    \E kc \in 0..MaxPedal :
    \E notes \in SustainNoteLists(kn) :
    \E ccs \in ListsOf(PedalChanges, kc) :
    \E quantized \in BOOLEAN :
        /\ quantized => kn + kc = 0
        /\ ns = [IF quantized THEN SetStepsPerSecond(EmptySequence, 1)
                 ELSE EmptySequence EXCEPT
                    !.notes = notes, !.control_changes = ccs,
                    !.total_time = MaxTime]

InitP ==
    /\ SustainSequence(seq)
    /\ pre = seq
    /\ op = "init"
    /\ arg = 0
    /\ out = <<>>
    /\ kept = <<>>
    /\ err = "none"
    /\ origin = FromCaller
    /\ step = 0
    /\ ret = "nothing"

ApplySustainControlChanges(sustain_control_number) ==
    LET r == apply_sustain_control_changes(seq, sustain_control_number)
    IN  /\ op = "init"
        /\ op' = "apply_sustain_control_changes"
        /\ arg' = sustain_control_number
        /\ pre' = seq
        /\ seq' = seq
        /\ out' = Returned(r)
        /\ kept' = <<>>
        /\ err' = r.err
        /\ ret' = ReturnKind(r.err, "sequence")
        /\ UNCHANGED <<origin, step>>

NextP ==
    \/ \E n \in {SUSTAIN_CONTROL_NUMBER, 66} : ApplySustainControlChanges(n)
    \/ Forget

SpecP == InitP /\ [][NextP]_vars

(***************************************************************************)
(* The transposer on sequences with notes, chord symbols and a key.        *)
(***************************************************************************)
TransposerPitches == {59, 60, 73, 120}

TransposerNotes ==
    {NewNote(0, 1, p) : p \in TransposerPitches}
    \cup {[NewNote(1, MaxTime, 36) EXCEPT !.is_drum = TRUE]}

TransposerAnnotations ==
    {<<>>,
     <<ChordAnnotation(0, NO_CHORD)>>,
     <<ChordAnnotation(0, Figure("chord", "C", 0))>>,
     <<ChordAnnotation(0, Figure("chord", "B", -1))>>,
     <<ChordAnnotation(0, Unparsable)>>,
     <<NewTextAnnotation(0, BEAT) @@ [text |-> Figure("", "", 0)]>>}

TransposerSequence(ns) ==
    \E kn \in 0..MaxTransposed :
    \E notes \in ListsOf(TransposerNotes, kn) :
    \E tas \in TransposerAnnotations :
    \E kss \in {<<>>, <<NewKeySignature(0, 11)>>} :
        ns = [EmptySequence EXCEPT
                 !.notes = notes, !.text_annotations = tas,
                 !.key_signatures = kss, !.total_time = MaxTime]

Amounts == {-13, 0, 2, 12}

\* the default range, one narrower and one wider than an octave, and one
\* whose bounds are exchanged
PitchRanges ==
    {<<MIN_MIDI_PITCH, MAX_MIDI_PITCH>>, <<60, 62>>, <<60, 72>>, <<62, 60>>}

TransposeCalls ==
    {c \in [amount : Amounts, range : PitchRanges, transpose_chords : BOOLEAN,
            in_place : BOOLEAN, delete_notes : BOOLEAN] :
        c.in_place => /\ c.amount \in {-13, 2}
                      /\ c.range = <<60, 72>>
                      /\ c.transpose_chords}

InitT ==
    /\ TransposerSequence(seq)
    /\ pre = seq
    /\ op = "init"
    /\ arg = 0
    /\ out = <<>>
    /\ kept = <<>>
    /\ err = "none"
    /\ origin = FromCaller
    /\ step = 0
    /\ ret = "nothing"

\* the sequence returned is in out, the count returned with it in step; with
\* in_place the caller's sequence is the one worked on
TransposeNoteSequence(c) ==
    LET r == transpose_note_sequence(seq, c.amount, c.range[1], c.range[2],
                                     c.transpose_chords, c.delete_notes)
    IN  /\ op = "init"
        /\ c.in_place => origin.depth < MaxInPlace
        /\ op' = "transpose_note_sequence"
        /\ arg' = c
        /\ pre' = seq
        /\ seq' = IF c.in_place THEN r.arg ELSE seq
        /\ origin' = IF c.in_place
                     THEN [op |-> "transpose_note_sequence", arg |-> 0,
                           depth |-> origin.depth + 1]
                     ELSE origin
        /\ out' = IF r.err = "none" THEN <<r.val>> ELSE <<>>
        /\ kept' = <<>>
        /\ err' = r.err
        /\ step' = r.count
        /\ ret' = ReturnKind(r.err, "pair")

NextT ==
    \/ \E c \in TransposeCalls : TransposeNoteSequence(c)
    \/ Forget

SpecT == InitT /\ [][NextT]_vars

(***************************************************************************)
(* The pitch sequence of quantized sequences.                              *)
(***************************************************************************)
\* notes as the quantizer leaves them: one or two steps long, or with the
\* end step before the start step
PitchNotes(steps_per_second) ==
    {QuantizedNote(s, s + d, p, 80, FALSE, steps_per_second) :
        s \in 0..MaxStep, d \in {1, 2}, p \in MelodyPitches}
    \cup {QuantizedNote(s, s - 1, 60, 80, FALSE, steps_per_second) :
             s \in 1..MaxStep}

PitchSequence(ns) ==
    \E steps_per_quarter \in {0, 1} :
    \E kn \in 0..MaxPitchNotes :
    \E total \in 0..(MaxStep + 2) :
    LET steps_per_second == IF steps_per_quarter = 0 THEN 1 ELSE
            steps_per_quarter_to_steps_per_second(steps_per_quarter,
                                                  DEFAULT_QUARTERS_PER_MINUTE)
    IN  \E notes \in ListsOf(PitchNotes(steps_per_second), kn) :
            /\ steps_per_quarter = 0 => kn = 0 /\ total = 0
            /\ ns = [EmptySequence EXCEPT
                        !.notes = notes,
                        !.steps_per_quarter = steps_per_quarter,
                        !.total_quantized_steps = total,
                        !.total_time = StepToTime(total, steps_per_second)]

InitR ==
    /\ PitchSequence(seq)
    /\ pre = seq
    /\ op = "init"
    /\ arg = 0
    /\ out = <<>>
    /\ kept = <<>>
    /\ err = "none"
    /\ origin = FromCaller
    /\ step = 0
    /\ ret = "nothing"

\* the list of symbols returned is in out
PitchSequenceRepresentation ==
    /\ op = "init"
    /\ \E r \in {pitch_sequence_representation(seq)} :
       /\ op' = "pitch_sequence_representation"
       /\ arg' = 0
       /\ pre' = seq
       /\ seq' = seq
       /\ out' = IF r.err = "none" THEN r.val ELSE <<>>
       /\ kept' = <<>>
       /\ err' = r.err
       /\ ret' = ReturnKind(r.err, "list")
       /\ UNCHANGED <<origin, step>>

NextR ==
    \/ PitchSequenceRepresentation
    \/ Forget

SpecR == InitR /\ [][NextR]_vars

(***************************************************************************)
(* The slicer and the splitter at fixed hops, on unquantized sequences of  *)
(* notes of positive length.                                               *)
(***************************************************************************)
SlicerSequence(ns) ==
    \E kn \in 0..MaxNotes :
    \E notes \in ListsOf({n \in SplitterNotes :
                             n.end_time \in {n.start_time + 1, MaxTime}}, kn) :
        ns = [EmptySequence EXCEPT !.notes = notes, !.total_time = MaxTime]

HopSizes ==
    {[scalar |-> h] : h \in 1..MaxHop}
    \cup {[list |-> l] : l \in UNION {ListsOf(1..MaxHop, k) : k \in 1..MaxHop}}

InitL ==
    /\ SlicerSequence(seq)
    /\ pre = seq
    /\ op = "init"
    /\ arg = 0
    /\ out = <<>>
    /\ kept = <<>>
    /\ err = "none"
    /\ origin = FromCaller
    /\ step = 0
    /\ ret = "nothing"

SliceNoteSequence(slice_size_seconds, hop_size_seconds, start_time, skip_splits_inside_notes, allow_cropped_slices) ==
    /\ op = "init"
    /\ \E r \in {slice_note_sequence(seq, slice_size_seconds, hop_size_seconds, start_time, skip_splits_inside_notes, allow_cropped_slices)} :
       /\ op' = "slice_note_sequence"
       /\ arg' = [slice_size_seconds |-> slice_size_seconds,
                  hop_size_seconds |-> hop_size_seconds,
                  start_time |-> start_time,
                  skip_splits_inside_notes |-> skip_splits_inside_notes,
                  allow_cropped_slices |-> allow_cropped_slices]
       /\ pre' = seq
       /\ seq' = seq
       /\ out' = r.val
       /\ kept' = r.kept
       /\ err' = r.err
       /\ ret' = r.kind
       /\ UNCHANGED <<origin, step>>

SplitNoteSequence(hop_size_seconds, skip_splits_inside_notes) ==
    /\ op = "init"
    /\ \E r \in {split_note_sequence(seq, hop_size_seconds, skip_splits_inside_notes)} :
       /\ op' = "split_note_sequence"
       /\ arg' = [hop_size_seconds |-> hop_size_seconds,
                  skip_splits_inside_notes |-> skip_splits_inside_notes]
       /\ pre' = seq
       /\ seq' = seq
       /\ out' = r.val
       /\ kept' = r.kept
       /\ err' = r.err
       /\ ret' = r.kind
       /\ UNCHANGED <<origin, step>>

NextL ==
    \/ \E size \in 1..MaxSliceSize, hop \in 1..MaxHop, start \in 0..1,
          skip \in BOOLEAN, crop \in BOOLEAN :
              SliceNoteSequence(size, hop, start, skip, crop)
    \/ \E hop \in HopSizes, skip \in BOOLEAN : SplitNoteSequence(hop, skip)
    \/ Forget

SpecL == InitL /\ [][NextL]_vars

(***************************************************************************)
(* The extraction of all melodies, on sequences quantized relative to      *)
(* tempo whose notes carry the steps the quantizer leaves.                 *)
(***************************************************************************)
MelodiesNotes(steps_per_second) ==
    {QuantizedNote(s, s + d, 60, 80, FALSE, steps_per_second) :
        s \in 0..MaxStep, d \in {1, 2}}
    \cup {QuantizedNote(s, s + 1, 62, 80, FALSE, steps_per_second) :
             s \in 0..MaxStep}
    \cup {QuantizedNote(s, s - 1, 60, 80, FALSE, steps_per_second) :
             s \in 1..MaxStep}
    \cup {[QuantizedNote(0, 1, 60, 80, FALSE, steps_per_second)
              EXCEPT !.instrument = 1]}

MelodiesSequence(ns) ==
    \E steps_per_quarter \in {0} \cup StepsPerQuarterValues :
    \E ts \in MelodyTimeSignatures :
    \E kn \in 0..MaxMelodyNotes :
    LET steps_per_second == IF steps_per_quarter = 0 THEN 1 ELSE
            steps_per_quarter_to_steps_per_second(steps_per_quarter,
                                                  DEFAULT_QUARTERS_PER_MINUTE)
    IN  \E notes \in ListsOf(MelodiesNotes(steps_per_second), kn) :
            /\ steps_per_quarter = 0 => kn = 0 /\ ts.numerator = 2
            /\ ns = [EmptySequence EXCEPT
                        !.notes = notes,
                        !.time_signatures = <<ts>>,
                        !.tempos = <<NewTempo(0, DEFAULT_QUARTERS_PER_MINUTE)>>,
                        !.steps_per_quarter = steps_per_quarter,
                        !.total_quantized_steps = MaxStep + 2,
                        !.total_time = StepToTime(MaxStep + 2, steps_per_second)]

\* the calls: the default gap of one bar and the drum filter, with or
\* without a minimum length, a limit of one bar and a second pitch asked for
MelodiesCalls ==
    {[search_start_step |-> 0, gap_bars |-> 1, filter_drums |-> TRUE,
      ignore_polyphonic_notes |-> ignore, min_bars |-> min_bars,
      max_bars_truncate |-> limits[1], max_bars_discard |-> limits[2],
      min_unique_pitches |-> pitches] :
        ignore \in BOOLEAN, min_bars \in {0, 1},
        limits \in {<<0, 0>>, <<1, 0>>, <<0, 1>>}, pitches \in {1, 2}}

InitE ==
    /\ MelodiesSequence(seq)
    /\ pre = seq
    /\ op = "init"
    /\ arg = 0
    /\ out = <<>>
    /\ kept = <<>>
    /\ err = "none"
    /\ origin = FromCaller
    /\ step = 0
    /\ ret = "nothing"

\* the call enters the loop, or is over before it
ExtractMelodiesFromNoteSequence(p) ==
    /\ op = "init"
    /\ \E r \in {extract_melodies_from_note_sequence(seq, p)} :
       /\ op' = r.op
       /\ arg' = r.arg
       /\ step' = r.step
       /\ out' = r.out
       /\ kept' = r.kept
       /\ err' = r.err
       /\ ret' = r.ret
       /\ pre' = seq
       /\ UNCHANGED <<seq, origin>>

\* one search for a melody of the current instrument
SearchMelody ==
    /\ op = "searching"
    /\ arg.searches < MaxSearches
    /\ \E r \in {SearchStep(seq, arg, step, out, kept)} :
       /\ op' = r.op
       /\ arg' = r.arg
       /\ step' = r.step
       /\ out' = r.out
       /\ kept' = r.kept
       /\ err' = r.err
       /\ ret' = r.ret
       /\ UNCHANGED <<seq, pre, origin>>

\* the caller drops what the call returned
ForgetMelodies == op = "extract_melodies_from_note_sequence" /\ Forget

NextE ==
    \/ \E p \in MelodiesCalls : ExtractMelodiesFromNoteSequence(p)
    \/ SearchMelody
    \/ ForgetMelodies

SpecE == InitE /\ [][NextE]_vars

(***************************************************************************)
(* Properties of the quantizer.                                            *)
(***************************************************************************)
Quantized == op \in QuantizeOps /\ err = "none"

\* the steps per second the last quantizer call worked with
UsedStepsPerSecond ==
    IF op = "quantize_note_sequence"
    THEN steps_per_quarter_to_steps_per_second(arg, out[1].tempos[1].qpm)
    ELSE arg

SetMax(S) == CHOOSE m \in S : \A x \in S : x <= m

\* C2: for every time (negative ones too) and every resolution and cutoff,
\* quantize_to_step returns the mathematical floor of
\* seconds * steps_per_second + (1 - cutoff).
C2_StepIsFloor ==
    op = "quantize_to_step" =>
        step = Floor(StepNumerator(arg[1], arg[2], arg[3]), StepDenominator)

\* C3: quantization raises NegativeTimeError (an earlier meter or tempo
\* error apart) and returns nothing whenever a note start, a note end, a
\* control change or a text annotation of the input is at a negative time,
\* and no returned sequence carries a negative step.
HasNegativeTime(ns) ==
    \/ \E i \in DOMAIN ns.notes :
          ns.notes[i].start_time < 0 \/ ns.notes[i].end_time < 0
    \/ \E i \in DOMAIN ns.control_changes : ns.control_changes[i].time < 0
    \/ \E i \in DOMAIN ns.text_annotations : ns.text_annotations[i].time < 0

MeterErrors ==
    {"MultipleTimeSignatureError", "BadTimeSignatureError", "MultipleTempoError"}

C3_NegativeTimeIsAnError ==
    op \in QuantizeOps =>
        /\ HasNegativeTime(pre) =>
              /\ err \in {"NegativeTimeError"} \cup MeterErrors
              /\ out = <<>>
        /\ err = "none" =>
              /\ \A i \in DOMAIN out[1].notes :
                    /\ out[1].notes[i].quantized_start_step >= 0
                    /\ out[1].notes[i].quantized_end_step >= 0
              /\ \A i \in DOMAIN out[1].control_changes :
                    out[1].control_changes[i].quantized_step >= 0
              /\ \A i \in DOMAIN out[1].text_annotations :
                    out[1].text_annotations[i].quantized_step >= 0

\* C4: quantize_note_sequence raises MultipleTimeSignatureError when the
\* input holds two different time signatures, and MultipleTempoError when
\* it holds two different tempos (and its time signatures are accepted),
\* in whatever order the lists store them.
TwoTimeSignatures(ns) ==
    \E i, j \in DOMAIN ns.time_signatures :
        \/ ns.time_signatures[i].numerator # ns.time_signatures[j].numerator
        \/ ns.time_signatures[i].denominator # ns.time_signatures[j].denominator

TwoTempos(ns) ==
    \E i, j \in DOMAIN ns.tempos : ns.tempos[i].qpm # ns.tempos[j].qpm

C4_MeterChangeIsAnError ==
    op = "quantize_note_sequence" =>
        /\ TwoTimeSignatures(pre) => err = "MultipleTimeSignatureError"
        /\ (TwoTempos(pre) /\ ~TwoTimeSignatures(pre)) =>
              err \in {"MultipleTempoError", "MultipleTimeSignatureError"}

\* C5 (as claimed): every note of a returned sequence has
\* quantized_end_step > quantized_start_step, whatever its input times.
C5_EveryNoteHasDuration ==
    Quantized =>
        \A i \in DOMAIN out[1].notes :
            out[1].notes[i].quantized_end_step > out[1].notes[i].quantized_start_step

\* C5 (amended): every note whose input end_time is not before its
\* start_time has quantized_end_step > quantized_start_step in the
\* returned sequence.
C5_OrderedNoteHasDuration ==
    Quantized =>
        \A i \in DOMAIN out[1].notes :
            pre.notes[i].end_time >= pre.notes[i].start_time =>
                out[1].notes[i].quantized_end_step
                    > out[1].notes[i].quantized_start_step

\* a zero-length note was quantized
C5_Witness ==
    /\ Quantized
    /\ \E i \in DOMAIN pre.notes :
          /\ pre.notes[i].end_time = pre.notes[i].start_time
          /\ out[1].notes[i].quantized_end_step
                = out[1].notes[i].quantized_start_step + 1

\* C6 (as claimed): total_quantized_steps is the maximum of the snapped
\* total_time and the largest note end step, hence at least the end step
\* of every note and the step of every control change and annotation.
SnappedTotalTime == quantize_to_step(pre.total_time, UsedStepsPerSecond)

NoteEndSteps(ns) == {ns.notes[i].quantized_end_step : i \in DOMAIN ns.notes}

TotalIsMaximum ==
    /\ out[1].total_quantized_steps
          = SetMax({SnappedTotalTime} \cup NoteEndSteps(out[1]))
    /\ \A i \in DOMAIN out[1].notes :
          out[1].total_quantized_steps >= out[1].notes[i].quantized_end_step

C6_TotalCoversNotesAndEvents ==
    Quantized =>
        /\ TotalIsMaximum
        /\ \A i \in DOMAIN out[1].control_changes :
              out[1].total_quantized_steps >= out[1].control_changes[i].quantized_step
        /\ \A i \in DOMAIN out[1].text_annotations :
              out[1].total_quantized_steps >= out[1].text_annotations[i].quantized_step

\* C6 (amended): total_quantized_steps is the maximum of the snapped
\* total_time and the largest note end step, hence at least the end step
\* of every note, and at least the step of every control change and
\* annotation whose input time is not after total_time.
C6_TotalCoversNotesAndEarlyEvents ==
    Quantized =>
        /\ TotalIsMaximum
        /\ \A i \in DOMAIN out[1].control_changes :
              pre.control_changes[i].time <= pre.total_time =>
                  out[1].total_quantized_steps
                      >= out[1].control_changes[i].quantized_step
        /\ \A i \in DOMAIN out[1].text_annotations :
              pre.text_annotations[i].time <= pre.total_time =>
                  out[1].total_quantized_steps
                      >= out[1].text_annotations[i].quantized_step

\* a note ends after the snapped total_time next to an earlier note, and
\* the total was raised to it
C6_Witness ==
    /\ Quantized
    /\ Len(out[1].notes) >= 2
    /\ out[1].notes[1].quantized_end_step > SnappedTotalTime
    /\ out[1].notes[2].quantized_end_step < out[1].notes[1].quantized_end_step
    /\ out[1].total_quantized_steps = out[1].notes[1].quantized_end_step

\* C7: quantizing the result of a quantization again at the same
\* resolution, its quantization_info kept or cleared, succeeds and gives
\* every note and event the same steps and the same total_quantized_steps.
Steps(ns) ==
    [notes |-> [i \in DOMAIN ns.notes |->
                   <<ns.notes[i].quantized_start_step,
                     ns.notes[i].quantized_end_step>>],
     control_changes |-> [i \in DOMAIN ns.control_changes |->
                             ns.control_changes[i].quantized_step],
     text_annotations |-> [i \in DOMAIN ns.text_annotations |->
                              ns.text_annotations[i].quantized_step],
     total |-> ns.total_quantized_steps]

QuantizedAgain ==
    op \in QuantizeOps /\ origin.op = op /\ origin.arg = arg

C7_QuantizeIsIdempotent ==
    QuantizedAgain => (err = "none" /\ Steps(out[1]) = Steps(pre))

\* a sequence with a note moved by the first quantization and an event
\* was quantized a second time
C7_Witness ==
    /\ QuantizedAgain
    /\ err = "none"
    /\ \E i \in DOMAIN pre.notes : pre.notes[i].quantized_start_step > 0
    /\ pre.control_changes # <<>>

\* C8: the returned sequence keeps the input's start_time and end_time of
\* every note and the time of every control change and annotation.
C8_OriginalTimesKept ==
    Quantized =>
        /\ \A i \in DOMAIN out[1].notes :
              /\ out[1].notes[i].start_time = pre.notes[i].start_time
              /\ out[1].notes[i].end_time = pre.notes[i].end_time
        /\ \A i \in DOMAIN out[1].control_changes :
              out[1].control_changes[i].time = pre.control_changes[i].time
        /\ \A i \in DOMAIN out[1].text_annotations :
              out[1].text_annotations[i].time = pre.text_annotations[i].time

(***************************************************************************)
(* Properties of the extractor and of the truncator.                       *)
(***************************************************************************)
Extracted == op = "extract_subsequences" /\ err = "none"

\* C1: a transformation leaves every field of the sequence it is given as
\* it was before the call, whether it returns or raises.
C1_InputUnchanged == op # "init" => seq = pre

\* C9 (as claimed): extract_subsequences raises and returns nothing when
\* the interval list is empty or an interval endpoint is outside
\* [0, total_time], a negative endpoint included.
EndpointOutside(ns, intervals) ==
    \E i \in DOMAIN intervals, k \in 1..2 :
        intervals[i][k] < 0 \/ intervals[i][k] > ns.total_time

C9_OutOfRangeIsAnError ==
    op = "extract_subsequences" =>
        ((arg = <<>> \/ EndpointOutside(pre, arg)) => (err # "none" /\ out = <<>>))

\* C9 (amended): extract_subsequences raises ValueError and returns
\* nothing exactly when the interval list is empty or an interval endpoint
\* is greater than total_time; a negative endpoint is not rejected.
EndpointPastEnd(ns, intervals) ==
    \E i \in DOMAIN intervals, k \in 1..2 : intervals[i][k] > ns.total_time

C9_PastEndIsAnError ==
    op = "extract_subsequences" =>
        /\ (arg = <<>> \/ EndpointPastEnd(pre, arg)) <=> err = "ValueError"
        /\ err = "ValueError" => out = <<>>

\* an interval that starts inside the sequence and ends past its end
C9_Witness ==
    /\ op = "extract_subsequences"
    /\ err = "ValueError"
    /\ \E i \in DOMAIN arg :
          arg[i][1] <= pre.total_time /\ arg[i][2] > pre.total_time

\* C10: every note of the subsequence of an interval (start, end) has
\* end_time <= end - start.
C10_NoteEndsInsideInterval ==
    Extracted =>
        \A i \in DOMAIN out : \A n \in DOMAIN out[i].notes :
            out[i].notes[n].end_time <= kept[i][2] - kept[i][1]

\* the notes held by a list of subsequences
RECURSIVE NoteCount(_)
NoteCount(subsequences) ==
    IF subsequences = <<>> THEN 0
    ELSE Len(Head(subsequences).notes) + NoteCount(Tail(subsequences))

\* intervals that do not overlap and cover [0, total_time) exactly
CoversExactly(ns, intervals) ==
    LET s == SortedIntervals(intervals)
    IN  /\ intervals # <<>>
        /\ s[1][1] = 0
        /\ s[Len(s)][2] = ns.total_time
        /\ \A i \in DOMAIN s : s[i][1] < s[i][2]
        /\ \A i \in 1..(Len(s) - 1) : s[i][2] = s[i + 1][1]

NotesStartingBefore(ns, time) ==
    Cardinality({i \in DOMAIN ns.notes : ns.notes[i].start_time < time})

InEffect(events, time) ==
    LET s == SelectSeq(SortedByTime(events), LAMBDA e : e.time <= time)
    IN  IF s = <<>> THEN <<>> ELSE <<[s[Len(s)] EXCEPT !.time = 0]>>

StateCarried(source, subsequence, start) ==
    InEffect(source, start) # <<>> =>
        InEffect(subsequence, 0) = InEffect(source, start)

\* C12: in every subsequence returned by extract_subsequences the time
\* signature, the key signature and the tempo in effect at relative time 0
\* are the ones in effect in the source at the start of the interval,
\* whenever the source declares one at or before that start.
C12_StateInEffectIsCarried ==
    Extracted =>
        \A i \in DOMAIN out :
            /\ StateCarried(pre.time_signatures, out[i].time_signatures, kept[i][1])
            /\ StateCarried(pre.key_signatures, out[i].key_signatures, kept[i][1])
            /\ StateCarried(pre.tempos, out[i].tempos, kept[i][1])

\* the only meter change of a sequence is from 4/4 to 3/4 at the time T,
\* strictly inside the sequence
MeterChangeAt(ns, T) ==
    /\ 0 < T /\ T < ns.total_time
    /\ \E i \in DOMAIN ns.time_signatures : ns.time_signatures[i].time = T
    /\ \A i \in DOMAIN ns.time_signatures :
          LET e == ns.time_signatures[i]
          IN  \/ e.time = 0 /\ e.numerator = 4 /\ e.denominator = 4
              \/ e.time = T /\ e.numerator = 3 /\ e.denominator = 4

\* one tempo is in effect from time 0 to the end
ConstantTempo(ns) ==
    \A i \in DOMAIN ns.tempos :
        /\ \A j \in DOMAIN ns.tempos : ns.tempos[j].qpm = ns.tempos[i].qpm
        /\ \/ ns.tempos[i].qpm = DEFAULT_QUARTERS_PER_MINUTE
           \/ \E j \in DOMAIN ns.tempos : ns.tempos[j].time = 0

SplitOnTimeChanges == op = "split_note_sequence_on_time_changes"

IsThreeFour(e) == e.time = 0 /\ e.numerator = 3 /\ e.denominator = 4

StartsWithThreeFour(ns) ==
    /\ ns.time_signatures # <<>>
    /\ \A i \in DOMAIN ns.time_signatures : IsThreeFour(ns.time_signatures[i])

NoteStartsIn(ns, from, to) ==
    \E i \in DOMAIN ns.notes :
        from <= ns.notes[i].start_time /\ ns.notes[i].start_time < to

C14_SilenceSplitReturnsList ==
    op = "split_note_sequence_on_silence" =>
        /\ err = "none"
        /\ ret = "list"
        /\ out # <<>>
        /\ \A i \in DOMAIN out : out[i] = pre \/ out[i].notes # <<>>

(***************************************************************************)
(* Properties of the truncator.                                            *)
(***************************************************************************)
StepPairs(notes) ==
    [i \in DOMAIN notes |->
        <<notes[i].quantized_start_step, notes[i].quantized_end_step>>]

\* the notes that start before the step, each cut at the step
TruncatedAt(notes, s) ==
    LET started == SelectSeq(notes, LAMBDA n : n.quantized_start_step < s)
    IN  [i \in DOMAIN started |->
            <<started[i].quantized_start_step,
              Min2(started[i].quantized_end_step, s)>>]

\* C15: truncate_quantized_sequence_at_step on a relative-quantized
\* sequence returns the notes that start before the step, in their order
\* and with their start steps, each ending at the smaller of its end step
\* and the step.
C15_TruncatedAtStep ==
    (op = "truncate_quantized_sequence_at_step"
        /\ is_relative_quantized_sequence(pre)) =>
            /\ err = "none"
            /\ ret = "sequence"
            /\ StepPairs(out[1].notes) = TruncatedAt(pre.notes, arg)

(***************************************************************************)
(* Properties of the melody extractor.                                     *)
(***************************************************************************)
MelodyExtracted == op = "extract_melody_from_note_sequence"

IntegralStepsPerBar(ns) ==
    StepsPerBarNumerator(ns) % ns.time_signatures[1].denominator = 0

\* the notes the extractor considers for the melody of instrument 0
EligibleNotes(ns, search_start_step) ==
    {i \in DOMAIN ns.notes :
        LET n == ns.notes[i]
        IN  /\ n.instrument = 0
            /\ n.program \in MEL_PROGRAMS
            /\ n.quantized_start_step >= search_start_step
            /\ PIANO_MIN_MIDI_PITCH <= n.pitch /\ n.pitch <= PIANO_MAX_MIDI_PITCH
            /\ ~n.is_drum
            /\ n.velocity # 0}

NoSimultaneousOnsets(ns, search_start_step) ==
    \A i, j \in EligibleNotes(ns, search_start_step) :
        i # j => ns.notes[i].quantized_start_step # ns.notes[j].quantized_start_step

\* the notes follow each other without overlap, each of positive length
Monophonic(notes) ==
    /\ \A i \in DOMAIN notes :
          notes[i].quantized_end_step > notes[i].quantized_start_step
    /\ \A i \in 1..(Len(notes) - 1) :
          /\ notes[i].quantized_start_step < notes[i + 1].quantized_start_step
          /\ notes[i].quantized_end_step <= notes[i + 1].quantized_start_step

\* C16 (as claimed): on a relative-quantized sequence with integral steps
\* per bar in which no two eligible notes start on the same step, melody
\* extraction never raises PolyphonicMelodyError, and the notes of a
\* returned melody are strictly increasing in start step, do not overlap
\* and end after they start.
C16_MelodyIsMonophonic ==
    (/\ MelodyExtracted
     /\ is_relative_quantized_sequence(pre) /\ IntegralStepsPerBar(pre)
     /\ NoSimultaneousOnsets(pre, arg[1])) =>
        /\ err # "PolyphonicMelodyError"
        /\ ret = "sequence" => Monophonic(out[1].notes)

\* C16 (amended): the same, for sequences whose eligible notes all have
\* quantized_end_step > quantized_start_step.
C16_MelodyOfProperNotesIsMonophonic ==
    (/\ MelodyExtracted
     /\ is_relative_quantized_sequence(pre) /\ IntegralStepsPerBar(pre)
     /\ NoSimultaneousOnsets(pre, arg[1])
     /\ \A i \in EligibleNotes(pre, arg[1]) :
           pre.notes[i].quantized_end_step > pre.notes[i].quantized_start_step) =>
        /\ err # "PolyphonicMelodyError"
        /\ ret = "sequence" => Monophonic(out[1].notes)

\* a melody of two notes was returned, the first one cut at the start of
\* the second
C16_Witness ==
    /\ MelodyExtracted
    /\ NoSimultaneousOnsets(pre, arg[1])
    /\ ret = "sequence"
    /\ Len(out[1].notes) = 2
    /\ out[1].notes[1].quantized_end_step = out[1].notes[2].quantized_start_step
    /\ \E i \in DOMAIN pre.notes :
          /\ pre.notes[i].quantized_start_step < pre.notes[i].quantized_end_step
          /\ \E j \in DOMAIN pre.notes :
                /\ pre.notes[i].quantized_start_step < pre.notes[j].quantized_start_step
                /\ pre.notes[j].quantized_start_step < pre.notes[i].quantized_end_step

\* the notes the melody walk does not skip, in the order of the walk
RetainedNotes(ns, search_start_step) ==
    SortedByStepAndPitch(
        SelectSeq(ns.notes, LAMBDA n :
            /\ n.instrument = 0
            /\ n.program \in MEL_PROGRAMS
            /\ n.quantized_start_step >= search_start_step
            /\ PIANO_MIN_MIDI_PITCH <= n.pitch /\ n.pitch <= PIANO_MAX_MIDI_PITCH
            /\ ~n.is_drum
            /\ n.velocity # 0))

StepsPerBar(ns) == StepsPerBarNumerator(ns) \div ns.time_signatures[1].denominator

\* the notes from position i on that a walk ending at a silence of gap
\* steps or more accepts
RECURSIVE AcceptedUpToGap(_, _, _, _)
AcceptedUpToGap(notes, i, last_end_step, gap) ==
    IF i > Len(notes) THEN 0
    ELSE IF notes[i].quantized_start_step - last_end_step >= gap THEN 0
    ELSE 1 + AcceptedUpToGap(notes, i + 1, notes[i].quantized_end_step, gap)

\* C26: in the melody walk a note that starts after the last accepted note
\* ends the extraction when the silence between the end step of the last
\* accepted note and its own start step is gap_bars * steps_per_bar or more,
\* and is appended otherwise, whatever its own length.  (gap_bars is 1; no
\* two retained notes start together.)
C26_MelodyEndsAtSilence ==
    (/\ MelodyExtracted
     /\ ret = "sequence"
     /\ NoSimultaneousOnsets(pre, arg[1])) =>
        LET notes == RetainedNotes(pre, arg[1])
        IN  Len(out[1].notes)
                = 1 + AcceptedUpToGap(notes, 2, notes[1].quantized_end_step,
                                      StepsPerBar(pre))

\* C27: the first note of a returned melody, the first note kept after the
\* drum and zero-velocity filters, has its rebased quantized_start_step in
\* [0, steps_per_bar).
C27_FirstNoteInFirstBar ==
    (MelodyExtracted /\ ret = "sequence") =>
        /\ 0 <= out[1].notes[1].quantized_start_step
        /\ out[1].notes[1].quantized_start_step < StepsPerBar(pre)

\* the start of the melody in the source: the bar boundary at or before
\* the first note of the instrument
MelodyStartStep(ns, instrument, search_start_step) ==
    LET first == {i \in DOMAIN ns.notes :
                     /\ ns.notes[i].instrument = instrument
                     /\ ns.notes[i].program \in MEL_PROGRAMS
                     /\ ns.notes[i].quantized_start_step >= search_start_step
                     /\ PIANO_MIN_MIDI_PITCH <= ns.notes[i].pitch
                     /\ ns.notes[i].pitch <= PIANO_MAX_MIDI_PITCH}
        s == CHOOSE m \in {ns.notes[i].quantized_start_step : i \in first} :
                 \A i \in first : m <= ns.notes[i].quantized_start_step
    IN  s - ((s - search_start_step) % StepsPerBar(ns))

\* the events with source time in [start, start + duration), rebased
EventsInMelody(events, start_time, duration) ==
    LET inside == SelectSeq(events, LAMBDA e :
                      start_time <= e.time /\ e.time < start_time + duration)
    IN  [i \in DOMAIN inside |->
            [inside[i] EXCEPT !.time = @ - start_time]] \o <<>>

\* C28: a returned melody holds exactly the control changes of the target
\* instrument (with an allowed program) and the chord symbols whose source
\* time lies in [melody start, melody start + melody duration), each in the
\* collection of its kind and with its time rebased to the melody start.
C28_EventsOfTheMelody ==
    (MelodyExtracted /\ ret = "sequence") =>
        LET start_time == StepToTime(MelodyStartStep(pre, 0, arg[1]),
                              steps_per_second_in_quantized_sequence(pre))
        IN  /\ out[1].control_changes
                   = EventsInMelody(
                         SelectSeq(pre.control_changes, LAMBDA cc :
                             cc.instrument = 0 /\ cc.program \in MEL_PROGRAMS),
                         start_time, out[1].total_time)
            /\ out[1].text_annotations
                   = EventsInMelody(
                         SelectSeq(pre.text_annotations, LAMBDA ta :
                             ta.annotation_type = CHORD_SYMBOL),
                         start_time, out[1].total_time)

(***************************************************************************)
(* Properties of the sustainer.                                            *)
(***************************************************************************)
SustainApplied == op = "apply_sustain_control_changes"

HasSustainChange(ns, number) ==
    \E i \in DOMAIN ns.control_changes :
        ns.control_changes[i].control_number = number

NotesEndAfterStart(ns) ==
    \A i \in DOMAIN ns.notes : ns.notes[i].end_time >= ns.notes[i].start_time

\* C17: on an un-quantized input without a control change of the sustain
\* control number, whose notes all have end_time >= start_time,
\* apply_sustain_control_changes returns the same notes in the same order with
\* the same start and end times, and the same total_time.
C17_NoSustainIsNoOp ==
    (/\ SustainApplied
     /\ ~is_quantized_sequence(pre)
     /\ ~HasSustainChange(pre, arg)
     /\ NotesEndAfterStart(pre))
    => /\ ret = "sequence"
       /\ out[1].notes = pre.notes
       /\ out[1].total_time = pre.total_time

\* two notes, one of no length, and a control change of another number
C17_Witness ==
    /\ SustainApplied
    /\ ret = "sequence"
    /\ ~HasSustainChange(pre, arg)
    /\ pre.control_changes # <<>>
    /\ Len(pre.notes) = 2
    /\ NotesEndAfterStart(pre)
    /\ \E i \in DOMAIN pre.notes :
           /\ ~pre.notes[i].is_drum
           /\ pre.notes[i].end_time = pre.notes[i].start_time
    /\ out[1].notes = pre.notes

Min(S) == CHOOSE x \in S : \A y \in S : x <= y

Max(S) == CHOOSE x \in S : \A y \in S : x >= y

\* the sustain control changes of an instrument
SustainChanges(ns, number, instrument) ==
    {i \in DOMAIN ns.control_changes :
        /\ ns.control_changes[i].control_number = number
        /\ ns.control_changes[i].instrument = instrument}

\* the pedal of an instrument after the sustain events up to a time: on and
\* off at one time leave it off
PedalDownAt(ns, number, instrument, time) ==
    LET before == {i \in SustainChanges(ns, number, instrument) :
                      ns.control_changes[i].time <= time}
        last == Max({ns.control_changes[i].time : i \in before})
    IN  /\ before # {}
        /\ \A i \in before :
               ns.control_changes[i].time = last
               => ns.control_changes[i].control_value >= 64

\* the notes released under the pedal
ReleasedUnderPedal(ns, number) ==
    {i \in DOMAIN ns.notes :
        /\ ~ns.notes[i].is_drum
        /\ PedalDownAt(ns, number, ns.notes[i].instrument, ns.notes[i].end_time)}

LastEventTime(ns, number) ==
    Max({0}
        \cup {ns.notes[i].start_time : i \in {j \in DOMAIN ns.notes : ~ns.notes[j].is_drum}}
        \cup {ns.notes[i].end_time : i \in {j \in DOMAIN ns.notes : ~ns.notes[j].is_drum}}
        \cup {ns.control_changes[i].time :
                 i \in {j \in DOMAIN ns.control_changes :
                           ns.control_changes[j].control_number = number}})

\* where the note is to end: the next note-on of its pitch at or after its end,
\* the next sustain-off after its end, or the last event
SustainedEnd(ns, number, i) ==
    LET note == ns.notes[i]
        ons  == {ns.notes[j].start_time :
                    j \in {k \in DOMAIN ns.notes :
                              /\ k # i
                              /\ ~ns.notes[k].is_drum
                              /\ ns.notes[k].instrument = note.instrument
                              /\ ns.notes[k].pitch = note.pitch
                              /\ ns.notes[k].start_time >= note.end_time}}
        offs == {ns.control_changes[j].time :
                    j \in {k \in SustainChanges(ns, number, note.instrument) :
                              /\ ns.control_changes[k].control_value < 64
                              /\ ns.control_changes[k].time > note.end_time}}
    IN  IF ons \cup offs = {} THEN LastEventTime(ns, number)
        ELSE Min(ons \cup offs)

\* C18: a non-drum note whose note-off comes while the sustain of its
\* instrument is active ends, in the output, at the earlier of the next note-on
\* of its pitch and the next sustain-off after its original end (at the last
\* processed event time when there is neither), and never before its original
\* end_time.
C18_SustainedNoteEnd ==
    (SustainApplied /\ ret = "sequence" /\ NotesEndAfterStart(pre))
    => LET st == SustainedNotes(pre, arg)
       IN  \A i \in ReleasedUnderPedal(pre, arg) :
               /\ i \in st.alive
               /\ st.notes[i].end_time = SustainedEnd(pre, arg, i)
               /\ st.notes[i].end_time >= pre.notes[i].end_time

CoversNotes(ns) ==
    \A i \in DOMAIN ns.notes : ns.total_time >= ns.notes[i].end_time

\* C19: for an un-quantized input whose total_time is at least the end time of
\* every note, the total_time apply_sustain_control_changes returns is at
\* least the input's total_time and at least the end_time of every returned
\* note, drum or not.
C19_TotalTimeOnlyExtended ==
    (SustainApplied /\ ret = "sequence" /\ CoversNotes(pre))
    => /\ out[1].total_time >= pre.total_time
       /\ CoversNotes(out[1])

(***************************************************************************)
(* Properties of the transposer.                                           *)
(***************************************************************************)
Transposed == op = "transpose_note_sequence" /\ ret = "pair"

CongruentPitch(p, q) == (q - p) % NOTES_PER_OCTAVE = 0

\* the input notes that are to stay
StaysIn(note, c) ==
    \/ note.is_drum
    \/ /\ c.delete_notes
       /\ c.range[1] <= note.pitch + c.amount
       /\ note.pitch + c.amount <= c.range[2]
    \/ /\ ~c.delete_notes
       /\ \E q \in c.range[1]..c.range[2] :
              CongruentPitch(note.pitch + c.amount, q)

\* C20: in the sequence transpose_note_sequence returns, the notes are the
\* input notes that are to stay, in their order: a drum note unchanged, any
\* other with a pitch in [min, max] congruent modulo 12 to its pitch + amount.
\* A note other than a drum is removed iff, with delete_notes, pitch + amount
\* is outside [min, max] and, without, no pitch of [min, max] is congruent
\* modulo 12 to pitch + amount.  The count returned is the number of input
\* notes that are not in the output.
C20_TransposedNotes ==
    Transposed
    => LET staying == SelectSeq([i \in DOMAIN pre.notes |-> i],
                                LAMBDA i : StaysIn(pre.notes[i], arg))
           notes == out[1].notes
       IN  /\ Len(notes) = Len(staying)
           /\ step = Len(pre.notes) - Len(notes)
           /\ \A k \in DOMAIN staying :
                  LET note == pre.notes[staying[k]]
                  IN  IF note.is_drum THEN notes[k] = note
                      ELSE /\ [notes[k] EXCEPT !.pitch = note.pitch] = note
                           /\ arg.range[1] <= notes[k].pitch
                           /\ notes[k].pitch <= arg.range[2]
                           /\ CongruentPitch(note.pitch + arg.amount,
                                             notes[k].pitch)

\* without delete_notes: of two notes one is removed and the other comes
\* back an octave away from its pitch + amount
C20_Witness ==
    /\ Transposed
    /\ ~arg.delete_notes
    /\ Len(pre.notes) = 2
    /\ step = 1
    /\ Len(out[1].notes) = 1
    /\ ~out[1].notes[1].is_drum
    /\ \A i \in DOMAIN pre.notes :
           out[1].notes[1].pitch # pre.notes[i].pitch + arg.amount

(***************************************************************************)
(* Properties of the pitch sequence.                                       *)
(***************************************************************************)
PitchSequenceReturned == op = "pitch_sequence_representation"

CoveredBy(note, i) ==
    note.quantized_start_step <= i /\ i < note.quantized_end_step

NoStepOverlap(ns) ==
    \A a, b \in DOMAIN ns.notes :
        a # b => \A i \in 0..(MaxStep + 3) :
                     ~(CoveredBy(ns.notes[a], i) /\ CoveredBy(ns.notes[b], i))

EndsInsideTotal(ns) ==
    \A k \in DOMAIN ns.notes :
        ns.notes[k].quantized_end_step <= ns.total_quantized_steps

NotesHaveLength(ns) ==
    \A k \in DOMAIN ns.notes :
        ns.notes[k].quantized_end_step > ns.notes[k].quantized_start_step

\* the list the claim describes: step i of the sequence is element i + 1
IsPitchSequence(list, ns) ==
    /\ Len(list) = ns.total_quantized_steps
    /\ \A k \in DOMAIN ns.notes :
           /\ ns.notes[k].quantized_start_step + 1 \in DOMAIN list
           /\ list[ns.notes[k].quantized_start_step + 1] = ns.notes[k].pitch
    /\ \A i \in 0..(Len(list) - 1) :
           /\ (\E k \in DOMAIN ns.notes :
                  /\ CoveredBy(ns.notes[k], i)
                  /\ i # ns.notes[k].quantized_start_step)
              => list[i + 1] = HOLD_NOTE_SYMBOL
           /\ (\A k \in DOMAIN ns.notes : ~CoveredBy(ns.notes[k], i))
              => list[i + 1] = SILENCE_SYMBOL

\* C21: for every quantized sequence whose notes do not overlap in steps and
\* end at or before total_quantized_steps, pitch_sequence_representation
\* returns a list of length total_quantized_steps with the pitch of each note
\* at its quantized_start_step, 128 at the other steps of the note and 129 at
\* the steps no note covers.
C21_PitchSequence ==
    (/\ PitchSequenceReturned
     /\ is_quantized_sequence(pre)
     /\ NoStepOverlap(pre)
     /\ EndsInsideTotal(pre))
    => ret = "list" /\ IsPitchSequence(out, pre)

\* C21, for sequences whose notes all have quantized_end_step >
\* quantized_start_step.
C21_PitchSequenceOfProperNotes ==
    (/\ PitchSequenceReturned
     /\ is_quantized_sequence(pre)
     /\ NoStepOverlap(pre)
     /\ EndsInsideTotal(pre)
     /\ NotesHaveLength(pre))
    => ret = "list" /\ IsPitchSequence(out, pre)

\* two notes, the second two steps long, and a step of silence
C21_Witness ==
    /\ PitchSequenceReturned
    /\ ret = "list"
    /\ Len(pre.notes) = 2
    /\ NoStepOverlap(pre)
    /\ EndsInsideTotal(pre)
    /\ NotesHaveLength(pre)
    /\ \E i \in DOMAIN out : out[i] = HOLD_NOTE_SYMBOL
    /\ \E i \in DOMAIN out : out[i] = SILENCE_SYMBOL
    /\ IsPitchSequence(out, pre)

(***************************************************************************)
(* Properties of the snapping rule.  The time in steps is                 *)
(* seconds * steps_per_second / TicksPerSecond.                            *)
(***************************************************************************)
StepIntegerPart == (arg[1] * arg[2]) \div TicksPerSecond

\* the numerator of the fraction, over TicksPerSecond
StepFraction == (arg[1] * arg[2]) % TicksPerSecond

QuantizedNonNegative == op = "quantize_to_step" /\ arg[1] >= 0

OfPair(changes, instrument, control_number) ==
    {i \in DOMAIN changes :
        /\ changes[i].instrument = instrument
        /\ changes[i].control_number = control_number}

\* the values of the latest source events of the pair before a time
LastValuesBefore(ns, instrument, control_number, time) ==
    LET before == {i \in OfPair(ns.control_changes, instrument, control_number) :
                      ns.control_changes[i].time < time}
    IN  {ns.control_changes[i].control_value :
            i \in {j \in before : \A k \in before :
                       ns.control_changes[k].time <= ns.control_changes[j].time}}

\* C23: for every interval and every (instrument, control_number) pair of
\* the preserve list, when the source has a control change of the pair
\* before the start of the interval and none inside it, the subsequence
\* holds one control change of the pair, at relative time 0 and with the
\* value of the most recent source event.
C23_PedalStateIsCarried ==
    (Extracted /\ err = "none") =>
        \A i \in DOMAIN out :
        \A instrument \in Instruments :
        \A control_number \in DEFAULT_SUBSEQUENCE_PRESERVE_CONTROL_NUMBERS :
            LET last == LastValuesBefore(pre, instrument, control_number,
                                         kept[i][1])
                inside == {j \in OfPair(pre.control_changes, instrument,
                                        control_number) :
                              /\ kept[i][1] <= pre.control_changes[j].time
                              /\ pre.control_changes[j].time < kept[i][2]}
                carried == OfPair(out[i].control_changes, instrument,
                                  control_number)
            IN  (last # {} /\ inside = {}) =>
                    /\ Cardinality(carried) = 1
                    /\ \A j \in carried :
                          /\ out[i].control_changes[j].time = 0
                          /\ out[i].control_changes[j].control_value \in last

(***************************************************************************)
(* Properties of the slicer and of the splitter at fixed hops.             *)
(***************************************************************************)
\* a time strictly inside a note
InsideANote(ns, time) ==
    \E k \in DOMAIN ns.notes :
        ns.notes[k].start_time < time /\ time < ns.notes[k].end_time

\* a note starts inside the interval, so its subsequence is not empty
HoldsNote(ns, interval) ==
    \E k \in DOMAIN ns.notes :
        interval[1] <= ns.notes[k].start_time
            /\ ns.notes[k].start_time < interval[2]

Returns(interval) ==
    err = "none" /\ \E i \in DOMAIN kept : kept[i] = interval

\* the windows of a call of slice_note_sequence
SliceWindows(ns, a) ==
    {<<a.start_time + k * a.hop_size_seconds,
       Min2(a.start_time + k * a.hop_size_seconds + a.slice_size_seconds,
            ns.total_time)>> :
        k \in {j \in 0..ns.total_time :
                  /\ a.start_time + j * a.hop_size_seconds <= ns.total_time
                  /\ \/ a.allow_cropped_slices
                     \/ a.start_time + j * a.hop_size_seconds
                            + a.slice_size_seconds <= ns.total_time}}

\* C24: with skip_splits_inside_notes, slice_note_sequence discards a window
\* exactly when its start lies strictly inside a note; a window that starts
\* after notes that have ended is kept.  (A window is seen in the result
\* when a note starts inside it.)
C24_WindowSkippedIffInsideNote ==
    (op = "slice_note_sequence" /\ arg.skip_splits_inside_notes) =>
        \A w \in SliceWindows(pre, arg) :
            HoldsNote(pre, w) => (Returns(w) <=> ~InsideANote(pre, w[1]))

\* the intervals of a call of split_note_sequence, before any is dropped
SplitIntervals(ns, a) ==
    IF IsList(a.hop_size_seconds)
    THEN PointIntervals(ns.total_time,
             SortedByKey(a.hop_size_seconds.list, a.hop_size_seconds.list),
             1, 0, <<>>)
    ELSE HopIntervals(ns.total_time, a.hop_size_seconds.scalar, 0, <<>>)

ReturnsOwnSequence == Len(out) = 1 /\ out[1] = pre

\* C25: with skip_splits_inside_notes, split_note_sequence keeps every
\* interval whose end lies strictly inside no note; a note that starts and
\* ends after the end of an interval does not make the interval go.  (An
\* interval is seen in the result when a note starts inside it.)
C25_IntervalKeptUnlessEndInsideNote ==
    (/\ op = "split_note_sequence"
     /\ arg.skip_splits_inside_notes
     /\ ~ReturnsOwnSequence) =>
        LET intervals == SplitIntervals(pre, arg)
        IN  \A i \in DOMAIN intervals :
                (HoldsNote(pre, intervals[i])
                    /\ ~InsideANote(pre, intervals[i][2]))
                => Returns(intervals[i])

(***************************************************************************)
(* Properties of the extraction of all melodies.                           *)
(***************************************************************************)
\* a search that found a melody and goes on with the same instrument
MelodyFound ==
    /\ op = "searching"
    /\ op' = "searching"
    /\ arg'.melody # <<>>

\* C29: after each melody extracted for an instrument, kept or discarded,
\* the next search_start_step is a bar boundary that is not before the end
\* of that melody in the steps of the source (its start step in the source
\* plus its length).
C29_NextSearchAfterMelody ==
    [][MelodyFound =>
          /\ step' % arg.steps_per_bar = 0
          /\ step' >= MelodyStartStep(seq, arg.instrument, step)
                          + arg'.melody[1].total_quantized_steps]_vars

\* C30: for each instrument the search start step grows with every melody
\* extracted, so the loop over the searches comes to its end.
C30_SearchStartGrows ==
    [][MelodyFound => step' > step]_vars

====
